---- MODULE Spec2Model ----
(***************************************************************************)
(* Fair-line computation, edge and stake derivation, decomposition and     *)
(* record validation of the NBA prediction engine.                         *)
(*                                                                         *)
(* Units.  Point values (ratings excepted) are integers in thousandths of  *)
(* a point ("milli"): 3.25 points is 3250.  Ratings and pace are integers  *)
(* in tenths, as NBA.com publishes them.  Kelly percentages are integers   *)
(* in hundredths of a percent: 9.26% is 926.  Arithmetic is exact; Python's *)
(* round() is round-half-to-even at the stated number of decimals.         *)
(* Text is a TLA+ string; case folding, containment and splitting are      *)
(* computed character by character.  The inputs of the model are chosen so  *)
(* that no rounded value is an exact decimal tie, where the binary         *)
(* representation of the float would decide the direction.                 *)
(***************************************************************************)
EXTENDS Integers, Sequences, FiniteSets, TLC

(***************************************************************************)
(* Python builtins used by the engine                                      *)
(***************************************************************************)
Abs(x) == IF x < 0 THEN -x ELSE x

Min(a, b) == IF a <= b THEN a ELSE b

Max(a, b) == IF a >= b THEN a ELSE b

\* nearest integer to n/d (d > 0), ties to the even neighbour
RoundHalfEven(n, d) ==
    LET q == n \div d
        r == n % d
    IN  IF 2 * r < d THEN q
        ELSE IF 2 * r > d THEN q + 1
        ELSE IF q % 2 = 0 THEN q ELSE q + 1

\* round(x, 2) of a value in milli: the nearest multiple of 0.01
round2(x) == 10 * RoundHalfEven(x, 10)

UpperCase == "ABCDEFGHIJKLMNOPQRSTUVWXYZ"

LowerCase == "abcdefghijklmnopqrstuvwxyz"

\* the lower-case form of each upper-case letter
LowerOf ==
    [c \in {SubSeq(UpperCase, i, i) : i \in 1..Len(UpperCase)} |->
        LET i == CHOOSE k \in 1..Len(UpperCase) : SubSeq(UpperCase, k, k) = c
        IN  SubSeq(LowerCase, i, i)]

LowerChar(c) == IF c \in DOMAIN LowerOf THEN LowerOf[c] ELSE c

RECURSIVE LowerText(_)
\* str.lower()
LowerText(s) == IF s = "" THEN "" ELSE LowerChar(SubSeq(s, 1, 1)) \o LowerText(SubSeq(s, 2, Len(s)))

\* the Python test  sub in s  on strings
Occurs(sub, s) ==
    \E i \in 1..(Len(s) - Len(sub) + 1) : SubSeq(s, i, i + Len(sub) - 1) = sub

\* name.split()[-1] when name.split() is not empty, "" when it is
LastWord(s) ==
    LET nonblank == {i \in 1..Len(s) : SubSeq(s, i, i) # " "}
    IN  IF nonblank = {} THEN ""
        ELSE LET e == CHOOSE i \in nonblank : \A j \in nonblank : j <= i
                 blanks == {i \in 1..e : SubSeq(s, i, i) = " "}
                 b == IF blanks = {} THEN 1
                      ELSE 1 + (CHOOSE i \in blanks : \A j \in blanks : j <= i)
             IN  SubSeq(s, b, e)

\* code-point order of the characters that occur in names
CharOrder == " 0123456789ABCDEFGHIJKLMNOPQRSTUVWXYZabcdefghijklmnopqrstuvwxyz"

OrdOf ==
    [c \in {SubSeq(CharOrder, i, i) : i \in 1..Len(CharOrder)} |->
        CHOOSE i \in 1..Len(CharOrder) : SubSeq(CharOrder, i, i) = c]

Ord(c) == OrdOf[c]

RECURSIVE StrLess(_, _)
\* the Python comparison  a < b  on strings
StrLess(a, b) ==
    IF b = "" THEN FALSE
    ELSE IF a = "" THEN TRUE
    ELSE IF SubSeq(a, 1, 1) # SubSeq(b, 1, 1)
         THEN Ord(SubSeq(a, 1, 1)) < Ord(SubSeq(b, 1, 1))
         ELSE StrLess(SubSeq(a, 2, Len(a)), SubSeq(b, 2, Len(b)))

(***************************************************************************)
(* difflib: SequenceMatcher.ratio and get_close_matches (no junk; the      *)
(* autojunk heuristic needs 200 characters and never applies to names)     *)
(***************************************************************************)
\* a local variable: body applied to the value of v, computed once
Let(v, body(_)) == CHOOSE y \in {body(x) : x \in {v}} : TRUE

\* the least and the greatest element of a non-empty set of integers
SetMin(S) == Let(S, LAMBDA s : CHOOSE i \in s : \A m \in s : i <= m)

SetMax(S) == Let(S, LAMBDA s : CHOOSE i \in s : \A m \in s : m <= i)

\* size of the longest block common to a and b
LongestSize(a, b) ==
    Let({k \in 1..Min(Len(a), Len(b)) :
            \E i \in 1..(Len(a) - k + 1), j \in 1..(Len(b) - k + 1) :
                SubSeq(a, i, i + k - 1) = SubSeq(b, j, j + k - 1)},
        LAMBDA sizes : IF sizes = {} THEN 0 ELSE SetMax(sizes))

\* find_longest_match: of the longest blocks the one earliest in a, then earliest in b
find_longest_match(a, b) ==
    Let(LongestSize(a, b), LAMBDA k :
        IF k = 0 THEN [i |-> 0, j |-> 0, size |-> 0]
        ELSE Let(SetMin({i \in 1..(Len(a) - k + 1) :
                            \E j \in 1..(Len(b) - k + 1) :
                                SubSeq(a, i, i + k - 1) = SubSeq(b, j, j + k - 1)}),
                 LAMBDA i0 :
                    [i |-> i0,
                     j |-> SetMin({j \in 1..(Len(b) - k + 1) :
                                     SubSeq(a, i0, i0 + k - 1) = SubSeq(b, j, j + k - 1)}),
                     size |-> k]))

RECURSIVE MatchingSize(_, _)
\* total size of get_matching_blocks(): the longest block, then the same to its left and right
MatchingSize(a, b) ==
    IF a = "" \/ b = "" THEN 0
    ELSE Let(find_longest_match(a, b), LAMBDA m :
            IF m.size = 0 THEN 0
            ELSE m.size
                 + MatchingSize(SubSeq(a, 1, m.i - 1), SubSeq(b, 1, m.j - 1))
                 + MatchingSize(SubSeq(a, m.i + m.size, Len(a)),
                                SubSeq(b, m.j + m.size, Len(b))))

\* SequenceMatcher(a=x, b=word).ratio() as the fraction num/den
Ratio(x, word) == [num |-> 2 * MatchingSize(x, word), den |-> Len(x) + Len(word)]

CUTOFF_TENTHS == 7

\* (score(x), x) > (score(y), y) on scored possibilities
better(s, t) ==
    \/ s.r.num * t.r.den > t.r.num * s.r.den
    \/ s.r.num * t.r.den = t.r.num * s.r.den /\ StrLess(t.x, s.x)

\* difflib.get_close_matches(word, possibilities, n=1, cutoff=0.7): the best-scoring
\* possibility at or above the cutoff (the greater string on equal score), or none
get_close_matches(word, possibilities) ==
    Let({s \in {[x |-> x, r |-> Ratio(x, word)] : x \in possibilities} :
            s.r.den > 0 /\ 10 * s.r.num >= CUTOFF_TENTHS * s.r.den},
        LAMBDA ok :
            IF ok = {} THEN << >>
            ELSE <<(CHOOSE s \in ok : \A t \in ok \ {s} : better(s, t)).x>>)

(***************************************************************************)
(* None, and the cells of a CSV file.  A cell is text; the model keeps     *)
(* what the text spells: a number (str(x) of a float), a percentage        *)
(* (f"{x}%") or any other text.                                            *)
(***************************************************************************)
None == [is_none |-> TRUE, v |-> 0]

Num(n) == [is_none |-> FALSE, v |-> n]

NumCell(n) == [kind |-> "num", n |-> n, s |-> ""]

PctCell(n) == [kind |-> "pct", n |-> n, s |-> ""]

TextCell(s) == [kind |-> "text", n |-> 0, s |-> s]

Empty == TextCell("")

\* float(cell): a ValueError (None here) unless the text spells a number
to_float(cell) == IF cell.kind = "num" THEN Num(cell.n) ELSE None

\* what pandas.read_csv gives for an empty cell: the float nan, which is no text.  No
\* text of the model is this string.
NaN == "<NaN>"

(***************************************************************************)
(* Bounded inputs: the contents the cache files and the calls may have    *)
(***************************************************************************)
MaxInjured == 2     \* rows in nba_injuries.csv

MaxNews == 2        \* items in nba_news_cache.json

MaxDay == 2         \* days the clock runs through

\* the subsequences of seq with at most n elements
RECURSIVE SubSeqsUpTo(_, _)
SubSeqsUpTo(seq, n) ==
    IF seq = << >> \/ n = 0 THEN {<< >>}
    ELSE LET rest == SubSeq(seq, 2, Len(seq))
         IN  SubSeqsUpTo(rest, n) \cup {<<seq[1]>> \o t : t \in SubSeqsUpTo(rest, n - 1)}

StatRow(name, off, def, pace) ==
    [TEAM_NAME |-> name, OFF_RATING |-> off, DEF_RATING |-> def, PACE |-> pace,
     NET_RATING |-> off - def]

StatsA == [status |-> "ok", rows |-> <<
    StatRow("Boston Celtics", 1183, 1121, 1000),
    StatRow("Brooklyn Nets", 1140, 1160, 980),
    StatRow("Charlotte Hornets", 1127, 1174, 1013),
    StatRow("LA Clippers", 1149, 1138, 987) >>]

\* the table of the worked example: the Celtics at 118.0 / 112.0 / 100.0 against the
\* Nets at 114.0 / 116.0 / 98.0
StatsExample == [status |-> "ok", rows |-> <<
    StatRow("Boston Celtics", 1180, 1120, 1000),
    StatRow("Brooklyn Nets", 1140, 1160, 980),
    StatRow("Charlotte Hornets", 1127, 1174, 1013),
    StatRow("LA Clippers", 1149, 1138, 987) >>]

InjuryPool == <<
    [team |-> "Brooklyn Nets", player |-> "Cam Thomas", status |-> "out", date |-> "Nov 04"],
    [team |-> "Brooklyn Nets", player |-> "Nic Claxton", status |-> "questionable", date |-> ""],
    [team |-> "Boston Celtics", player |-> "Jayson Tatum", status |-> "questionable", date |-> "Nov 05"],
    [team |-> "Charlotte Hornets", player |-> "LaMelo Ball", status |-> "Out", date |-> "Nov 04"] >>

\* rows with a cell left empty or a status outside the vocabulary
MalformedInjuryPool == <<
    [team |-> "Charlotte Hornets", player |-> "LaMelo Ball", status |-> NaN, date |-> "Nov 04"],
    [team |-> "Brooklyn Nets", player |-> "Cam Thomas", status |-> "suspended", date |-> NaN],
    [team |-> "Boston Celtics", player |-> "Jayson Tatum", status |-> "out", date |-> NaN],
    [team |-> "Brooklyn Nets", player |-> "Nic Claxton", status |-> "Questionable", date |-> "Nov 05"] >>

MalformedInjuryFiles ==
    {[status |-> "ok", rows |-> r] : r \in SubSeqsUpTo(MalformedInjuryPool, MaxInjured)}

InjuryFiles ==
    {[status |-> "ok", rows |-> r] : r \in SubSeqsUpTo(InjuryPool, MaxInjured)}
    \cup {[status |-> "missing", rows |-> << >>]}

StarEntry(id, players, error) == [id |-> id, players |-> players, error |-> error]

\* on/off values in tenths, keyed by lower-case player name
StarFull == [status |-> "ok", teams |-> {
    StarEntry(1610612738, {[name |-> "jayson tatum", pm |-> 86]}, FALSE),
    StarEntry(1610612751, {[name |-> "cam thomas", pm |-> 42], [name |-> "nic claxton", pm |-> 38]}, FALSE),
    StarEntry(1610612766, {[name |-> "lamelo ball", pm |-> 61]}, FALSE),
    StarEntry(1610612746, {[name |-> "kawhi leonard", pm |-> 73]}, FALSE) }]

\* the prefetch failed for the Nets; the Hornets' entry is empty with no error marker;
\* the Clippers have no entry
StarPartial == [status |-> "ok", teams |-> {
    StarEntry(1610612738, {[name |-> "jayson tatum", pm |-> 86]}, FALSE),
    StarEntry(1610612751, {}, TRUE),
    StarEntry(1610612766, {}, FALSE) }]

\* the Nets' table has no row for Nic Claxton
StarNoClaxton == [status |-> "ok", teams |-> {
    StarEntry(1610612738, {[name |-> "jayson tatum", pm |-> 86]}, FALSE),
    StarEntry(1610612751, {[name |-> "cam thomas", pm |-> 42]}, FALSE) }]

StarFiles == {StarFull, StarPartial,
              [status |-> "missing", teams |-> {}], [status |-> "corrupt", teams |-> {}]}

NewsPool == <<
    [title |-> "Hornets coach fired", summary |-> "Charlotte moves on"],
    [title |-> "Nets guard a late scratch", summary |-> "Brooklyn rules him out"],
    [title |-> "Lakers coach fired", summary |-> "Late Scratch for Los Angeles too"] >>

NewsFiles ==
    {[status |-> "ok", data |-> d] : d \in SubSeqsUpTo(NewsPool, MaxNews)}
    \cup {[status |-> "missing", data |-> << >>]}

RestFiles == {
    [status |-> "missing", rows |-> << >>],
    [status |-> "ok", rows |-> <<[TEAM_NAME |-> "Brooklyn Nets", REST_PENALTY |-> NumCell(-2500)],
                                 [TEAM_NAME |-> "Boston Celtics", REST_PENALTY |-> NumCell(0)]>>] }

\* rest-penalty files with a penalty that is no number
MalformedRestFiles == {
    [status |-> "ok", rows |-> <<[TEAM_NAME |-> "Brooklyn Nets", REST_PENALTY |-> TextCell("n/a")],
                                 [TEAM_NAME |-> "Boston Celtics", REST_PENALTY |-> NumCell(-1500)]>>],
    [status |-> "ok", rows |-> <<[TEAM_NAME |-> "Brooklyn Nets", REST_PENALTY |-> NumCell(-2500)],
                                 [TEAM_NAME |-> "Boston Celtics", REST_PENALTY |-> TextCell("n/a")]>>] }

\* <<away, home>> as the caller gives them
Matchups == {
    <<"Boston Celtics", "Brooklyn Nets">>,
    <<"Nets", "Celtics">>,
    <<"Clippers", "Boston Celtics">>,
    <<"Charlote Hornets", "LA Clippers">>,
    <<"Seattle Supersonics", "Brooklyn Nets">> }

\* milli
Markets == {-2500, 2700, 14873}

\* every name a caller passes in the model, and every list of team names a rating
\* table of the model holds
InputNames == {"Boston Celtics", "Brooklyn Nets", "Nets", "Celtics", "Clippers",
               "Charlote Hornets", "LA Clippers", "Seattle Supersonics"}

\* the matchup keys of odds_cache.json
OddsKeys == {"Celtics @ Nets", "Lakers @ Clippers"}

TeamLists == {{"Boston Celtics", "Brooklyn Nets", "Charlotte Hornets", "Los Angeles Clippers"}}

\* datetime.now().strftime('%b %d') for the model's days
DayLabels == <<"Nov 04", "Nov 05", "Nov 06", "Nov 07", "Nov 08">>

\* get_star_tax_weighted: weights, in dictionary order (tenths)
weights == <<
    <<"out", 10>>, <<"doubtful", 9>>, <<"questionable", 5>>,
    <<"game time decision", 5>>, <<"probable", 1>>, <<"day-to-day", 5>> >>

\* the statuses that raise the late-breaking flag
FLAG_STATUSES == {"out", "late scratch", "day-to-day", "out for the season"}

Range(seq) == {seq[i] : i \in 1..Len(seq)}


(***************************************************************************)
(* str.lower() and the substring test, tabulated once over the texts of    *)
(* the model (a text outside the tables is an evaluation error)            *)
(***************************************************************************)
TeamNameTexts == InputNames \cup UNION TeamLists

StatusTexts ==
    ({InjuryPool[i].status : i \in 1..Len(InjuryPool)}
     \cup {MalformedInjuryPool[i].status : i \in 1..Len(MalformedInjuryPool)}) \ {NaN}

NewsTexts == {NewsPool[i].title : i \in 1..Len(NewsPool)}
             \cup {NewsPool[i].summary : i \in 1..Len(NewsPool)}

CasedTexts ==
    TeamNameTexts \cup {LastWord(n) : n \in TeamNameTexts} \cup StatusTexts \cup NewsTexts
    \cup {InjuryPool[i].player : i \in 1..Len(InjuryPool)} \cup OddsKeys \cup {""}

LowerTable == [s \in CasedTexts |-> LowerText(s)]

lower(s) == LowerTable[s]

\* what is searched for, and what is searched
Needles ==
    {lower(n) : n \in TeamNameTexts \cup {LastWord(n) : n \in TeamNameTexts}}
    \cup {weights[i][1] : i \in 1..Len(weights)}
    \cup {"late scratch", "coach fired", "questionable", "game time"}
    \cup Range(DayLabels)

Haystacks ==
    {lower(NewsPool[i].title) \o " " \o lower(NewsPool[i].summary) : i \in 1..Len(NewsPool)}
    \cup {lower(t) : t \in NewsTexts \cup StatusTexts \cup OddsKeys} \cup StatusTexts
    \cup (({InjuryPool[i].date : i \in 1..Len(InjuryPool)}
           \cup {MalformedInjuryPool[i].date : i \in 1..Len(MalformedInjuryPool)}) \ {NaN})

ContainsTable == [sub \in Needles, s \in Haystacks |-> Occurs(sub, s)]

Contains(sub, s) == ContainsTable[sub, s]

(***************************************************************************)
(* State: the cached snapshots on disk, the clock, the configuration, the  *)
(* day's bet tracker, and what the last operation produced.                *)
(***************************************************************************)
VARIABLES
    stats_cache,    \* nba_stats_cache.json
    injuries_csv,   \* nba_injuries.csv
    rest_csv,       \* nba_rest_penalty_cache.csv
    star_cache,     \* nba_star_tax_cache.json
    news_cache,     \* nba_news_cache.json
    today,          \* the day datetime.now() falls on
    bankroll,       \* bankroll.json
    tracker,        \* bet_tracker_<today>.csv: the data rows under the 24-column header
    tracker_bak,    \* bet_tracker_<today>.csv.bak
    schedule,       \* run_ui: the game ids the schedule dict holds
    out             \* what the last operation returned or displayed

vars == <<stats_cache, injuries_csv, rest_csv, star_cache, news_cache, today, bankroll,
          tracker, tracker_bak, schedule, out>>

\* a file that does not exist
NoFile == [status |-> "missing", rows |-> << >>]

\* the cached snapshots
snapshot == <<stats_cache, injuries_csv, rest_csv, star_cache, news_cache>>

\* everything on disk
stored == <<stats_cache, injuries_csv, rest_csv, star_cache, news_cache, bankroll, tracker,
            tracker_bak>>

\* the memory of the run_ui process
session == <<schedule>>

(***************************************************************************)
(* nba_teams_static and the module constants                               *)
(***************************************************************************)
\* the rows of _NBA_TEAMS the model's league uses
NBA_TEAMS == <<
    [id |-> 1610612738, full_name |-> "Boston Celtics", nickname |-> "Celtics",
     abbreviation |-> "BOS"],
    [id |-> 1610612746, full_name |-> "Los Angeles Clippers", nickname |-> "Clippers",
     abbreviation |-> "LAC"],
    [id |-> 1610612751, full_name |-> "Brooklyn Nets", nickname |-> "Nets",
     abbreviation |-> "BKN"],
    [id |-> 1610612766, full_name |-> "Charlotte Hornets", nickname |-> "Hornets",
     abbreviation |-> "CHA"] >>

TEAM_ID_TO_NAME(id) ==
    IF \E t \in Range(NBA_TEAMS) : t.id = id
    THEN (CHOOSE t \in Range(NBA_TEAMS) : t.id = id).full_name
    ELSE ""

TEAM_NAME_TO_ID(name) ==
    IF \E t \in Range(NBA_TEAMS) : t.full_name = name
    THEN (CHOOSE t \in Range(NBA_TEAMS) : t.full_name = name).id
    ELSE 0

\* tenths
LEAGUE_BASELINE == [OFF_RATING |-> 1155, DEF_RATING |-> 1155, PACE |-> 992, NET_RATING |-> 0]

\* percent
REGRESS_FACTOR == 75

\* the home-court advantage written as a spread (negative = home favoured)
HCA_AS_SPREAD == 0 - 3000

\* milli
HCA_FLAT == 3000

\* nba_analytics.predict_nba_spread: short_to_full, as a set of <<nickname, full name>>
short_to_full == {
    <<"Celtics", "Boston Celtics">>,
    <<"Nets", "Brooklyn Nets">>,
    <<"Hornets", "Charlotte Hornets">>,
    <<"Clippers", "Los Angeles Clippers">>,
    <<"Lakers", "Los Angeles Lakers">> }

\* edge_analyzer.SHORT_TO_FULL
SHORT_TO_FULL == {
    <<"Celtics", "Boston Celtics">>,
    <<"Nets", "Brooklyn Nets">>,
    <<"Hornets", "Charlotte Hornets">>,
    <<"Clippers", "LA Clippers">>,
    <<"Lakers", "Los Angeles Lakers">> }

\* the alias taken without looking its target up in team_list
fuzzy_team_match_unchecked(aliases, name, team_list) ==
    IF name \in team_list THEN name
    ELSE IF \E a \in aliases : a[1] = name
         THEN (CHOOSE a \in aliases : a[1] = name)[2]
         ELSE LET matches == get_close_matches(name, team_list)
              IN  IF matches # << >> THEN matches[1] ELSE name

\* fuzzy_team_match(name, team_list) over an alias table: exact, alias, closest, else the input
fuzzy_team_match_with(aliases, name, team_list) ==
    IF name \in team_list THEN name
    ELSE IF \E a \in aliases : a[1] = name /\ a[2] \in team_list
         THEN (CHOOSE a \in aliases : a[1] = name)[2]
         ELSE LET matches == get_close_matches(name, team_list)
              IN  IF matches # << >> THEN matches[1] ELSE name

\* the fuzzy_team_match nested in predict_nba_spread, tabulated over the model's inputs
fuzzy_team_match ==
    [name \in InputNames, team_list \in TeamLists |->
        fuzzy_team_match_with(short_to_full, name, team_list)]

\* edge_analyzer.fuzzy_team_match, tabulated over the model's inputs
ea_fuzzy_team_match ==
    [name \in InputNames, team_list \in TeamLists |->
        fuzzy_team_match_with(SHORT_TO_FULL, name, team_list)]

(***************************************************************************)
(* Cache loaders                                                           *)
(***************************************************************************)
\* calculate_pace_and_ratings: the cached table with 'LA Clippers' renamed, or the
\* league baseline for every team when the cache is missing or corrupt
calculate_pace_and_ratings ==
    IF stats_cache.status = "ok"
    THEN [i \in 1..Len(stats_cache.rows) |->
            LET r == stats_cache.rows[i]
                name == IF r.TEAM_NAME = "LA Clippers" THEN "Los Angeles Clippers" ELSE r.TEAM_NAME
            IN  [TEAM_ID |-> TEAM_NAME_TO_ID(name), TEAM_NAME |-> name,
                 OFF_RATING |-> r.OFF_RATING, DEF_RATING |-> r.DEF_RATING,
                 PACE |-> r.PACE, NET_RATING |-> r.NET_RATING]]
    ELSE [i \in 1..Len(NBA_TEAMS) |->
            [TEAM_ID |-> NBA_TEAMS[i].id, TEAM_NAME |-> NBA_TEAMS[i].full_name,
             OFF_RATING |-> LEAGUE_BASELINE.OFF_RATING, DEF_RATING |-> LEAGUE_BASELINE.DEF_RATING,
             PACE |-> LEAGUE_BASELINE.PACE, NET_RATING |-> LEAGUE_BASELINE.NET_RATING]]

\* get_injuries: the player rows of one team, in file order ({} when the file is missing)
RECURSIVE SelectSeq2(_, _, _)
SelectSeq2(seq, team, i) ==
    IF i > Len(seq) THEN << >>
    ELSE IF seq[i].team = team
         THEN <<[name |-> seq[i].player, status |-> seq[i].status, date |-> seq[i].date]>>
              \o SelectSeq2(seq, team, i + 1)
         ELSE SelectSeq2(seq, team, i + 1)

get_injuries(team) ==
    IF injuries_csv.status = "ok" THEN SelectSeq2(injuries_csv.rows, team, 1) ELSE << >>

\* every player row get_injuries() holds, whatever the team
all_injuries ==
    IF injuries_csv.status = "ok"
    THEN [i \in 1..Len(injuries_csv.rows) |->
            [name |-> injuries_csv.rows[i].player, status |-> injuries_csv.rows[i].status,
             date |-> injuries_csv.rows[i].date]]
    ELSE << >>

\* get_news
get_news == IF news_cache.status = "ok" THEN news_cache.data ELSE << >>

\* get_rest_penalty (milli)
get_rest_penalty(team_id) ==
    LET team_name == TEAM_ID_TO_NAME(team_id)
        rows == {i \in 1..Len(rest_csv.rows) : rest_csv.rows[i].TEAM_NAME = team_name}
    IN  IF team_name = "" THEN 0
        ELSE IF rest_csv.status # "ok" THEN 0
        ELSE IF rows = {} THEN 0
        ELSE LET penalty == to_float(rest_csv.rows[CHOOSE i \in rows : \A j \in rows : i <= j].REST_PENALTY)
             IN  IF penalty.is_none THEN 0 ELSE penalty.v     \* float() raised: except, return 0

(***************************************************************************)
(* Star tax                                                                *)
(***************************************************************************)
\* next((v for k, v in weights.items() if k in status_lower), 0)
weight_of(status_lower) ==
    LET hits == {i \in 1..Len(weights) : Contains(weights[i][1], status_lower)}
    IN  IF hits = {} THEN 0 ELSE weights[CHOOSE i \in hits : \A j \in hits : i <= j][2]

RECURSIVE total_tax(_, _, _)
\* the loop over out_players: sum of on/off value times weight (hundredths)
total_tax(out_players, player_impacts, i) ==
    IF i > Len(out_players) THEN 0
    ELSE LET weight == weight_of(lower(out_players[i].status))
             p_name == lower(out_players[i].name)
             pm     == {e \in player_impacts : e.name = p_name}
         IN  (IF weight > 0 /\ pm # {} THEN (CHOOSE e \in pm : TRUE).pm * weight ELSE 0)
             + total_tax(out_players, player_impacts, i + 1)

\* the sum returned whole, without the half credit
get_star_tax_weighted_whole(team_id, out_players) ==
    IF out_players = << >> THEN Num(0)
    ELSE IF star_cache.status = "missing" THEN None
    ELSE IF star_cache.status = "corrupt" THEN None
    ELSE IF team_id = 0 THEN None
    ELSE LET entries == {e \in star_cache.teams : e.id = team_id}
             team_data == CHOOSE e \in entries : TRUE
         IN  IF entries = {} THEN Num(0)
             ELSE IF team_data.players = {}
                  THEN IF team_data.error THEN None ELSE Num(0)
                  ELSE IF \E i \in 1..Len(out_players) : out_players[i].status = NaN THEN None
                  ELSE Num(round2(10 * total_tax(out_players, team_data.players, 1)))

\* get_star_tax_weighted(team_id, out_players): milli, or None
get_star_tax_weighted(team_id, out_players) ==
    IF out_players = << >> THEN Num(0)
    ELSE IF star_cache.status = "missing" THEN None
    ELSE IF star_cache.status = "corrupt" THEN None
    ELSE IF team_id = 0 THEN None      \* int(team_id) of a team with no id raises
    ELSE LET entries == {e \in star_cache.teams : e.id = team_id}
             team_data == CHOOSE e \in entries : TRUE
         IN  IF entries = {} THEN Num(0)
             ELSE IF team_data.players = {}
                  THEN IF team_data.error THEN None ELSE Num(0)
                  \* p_info['status'].lower() of a float raises: except, return None
                  ELSE IF \E i \in 1..Len(out_players) : out_players[i].status = NaN THEN None
                  ELSE Num(round2(5 * total_tax(out_players, team_data.players, 1)))


(***************************************************************************)
(* The fair-line compositor                                                *)
(***************************************************************************)
\* a default row substituted when no row has the name
RowsOf_default(ratings, team) ==
    LET rows == {i \in 1..Len(ratings) : ratings[i].TEAM_NAME = team}
    IN  IF rows = {} THEN {1} ELSE {CHOOSE i \in rows : \A j \in rows : i <= j}

\* the row ratings[ratings['TEAM_NAME'] == team].iloc[0], as a set of at most one index
RowsOf(ratings, team) ==
    LET rows == {i \in 1..Len(ratings) : ratings[i].TEAM_NAME = team}
    IN  IF rows = {} THEN {} ELSE {CHOOSE i \in rows : \A j \in rows : i <= j}

\* the rating taken whole, with no blend toward the baseline
Regress_none(rating, baseline) == rating * 100

\* the regression blend of one rating toward the league baseline (milli)
Regress(rating, baseline) == (rating * REGRESS_FACTOR) + (baseline * (100 - REGRESS_FACTOR))

\* matchup_keywords: the resolved and the requested names, lower-cased, and the last
\* word of each resolved name
matchup_keywords(h_team, a_team, home_team, away_team) ==
    {lower(n) : n \in {h_team, a_team, home_team, away_team}}
    \cup {lower(LastWord(n)) : n \in {m \in {h_team, a_team} : LastWord(m) # ""}}

\* the text of a news item the keyword gate and the penalties look at
combined(item) == lower(item.title) \o " " \o lower(item.summary)

RECURSIVE news_factor_of(_, _, _)
\* the loop over the news items (milli): -2 per late scratch and -1 per coach fired,
\* for the items that contain one of the keywords
news_factor_of(news, keywords, i) ==
    IF i > Len(news) THEN 0
    ELSE LET c == combined(news[i])
             gated == \E kw \in keywords : Contains(kw, c)
         IN  (IF gated /\ Contains("late scratch", c) THEN -2000 ELSE 0)
             + (IF gated /\ Contains("coach fired", c) THEN -1000 ELSE 0)
             + news_factor_of(news, keywords, i + 1)

RECURSIVE names_where_questionable(_, _)
\* [p['name'] for p in players if 'questionable' in p['status']]
names_where_questionable(players, i) ==
    IF i > Len(players) THEN << >>
    ELSE (IF Contains("questionable", players[i].status) THEN <<players[i].name>> ELSE << >>)
         \o names_where_questionable(players, i + 1)

\* the flag loop raises: p['status'].lower() of a float (AttributeError), or
\* today in date_str with a float date_str, for a status the loop looks at (TypeError)
flag_loop_raises ==
    \E i \in 1..Len(all_injuries) :
        \/ all_injuries[i].status = NaN
        \/ lower(all_injuries[i].status) \in FLAG_STATUSES /\ all_injuries[i].date = NaN

\* the flag loop over every team's injury rows and over every news item
late_flag ==
    \/ \E i \in 1..Len(all_injuries) :
          /\ lower(all_injuries[i].status) \in FLAG_STATUSES
          /\ \/ all_injuries[i].date = ""
             \/ Contains(DayLabels[today], all_injuries[i].date)
    \/ \E i \in 1..Len(get_news) :
          \/ Contains("late scratch", lower(get_news[i].title))
          \/ Contains("late scratch", lower(get_news[i].summary))

NoResult(msg) ==
    [ok |-> FALSE, error |-> msg, h_team |-> "", a_team |-> "", fair_line |-> 0,
     q_players |-> << >>, flag |-> FALSE, star_tax_failed |-> FALSE,
     h_tax_raw |-> None, a_tax_raw |-> None, h_injuries |-> << >>, a_injuries |-> << >>,
     news_factor |-> 0, rest_adj |-> 0, matchup_num |-> 0, fair_num |-> 0]

\* the flag raised only when both lookups fail
star_tax_failed_both(h_tax_raw, a_tax_raw) == h_tax_raw.is_none /\ a_tax_raw.is_none

\* star_tax_failed = h_tax_raw is None or a_tax_raw is None
star_tax_failed_of(h_tax_raw, a_tax_raw) == h_tax_raw.is_none \/ a_tax_raw.is_none

\* tax_raw if tax_raw is not None else 0
tax_or_zero(tax_raw) == IF ~tax_raw.is_none THEN tax_raw.v ELSE 0

\* predict_nba_spread(away_team, home_team): the returned tuple (fair_line, q_players,
\* flag, star_tax_failed; news is get_news) with the locals it was computed from, or
\* the exception raised
predict_nba_spread(away_team, home_team) ==
    Let(calculate_pace_and_ratings, LAMBDA ratings :
    Let({ratings[i].TEAM_NAME : i \in 1..Len(ratings)}, LAMBDA team_names :
    Let([h_team |-> fuzzy_team_match[home_team, team_names],
         a_team |-> fuzzy_team_match[away_team, team_names]], LAMBDA t :
    Let([h |-> RowsOf(ratings, t.h_team), a |-> RowsOf(ratings, t.a_team)], LAMBDA rows :
    IF rows.h = {} \/ rows.a = {}
    THEN [NoResult("Fuzzy match failed for " \o away_team \o " or " \o home_team)
             EXCEPT !.h_team = t.h_team, !.a_team = t.a_team]
    ELSE IF flag_loop_raises
    THEN [NoResult("AttributeError or TypeError in the injury loop")
             EXCEPT !.h_team = t.h_team, !.a_team = t.a_team]
    ELSE
    Let([h_row |-> ratings[CHOOSE i \in rows.h : TRUE],
         a_row |-> ratings[CHOOSE i \in rows.a : TRUE]], LAMBDA r :
    Let([h_injuries |-> get_injuries(r.h_row.TEAM_NAME),
         a_injuries |-> get_injuries(r.a_row.TEAM_NAME)], LAMBDA inj :
    Let([h_tax_raw |-> get_star_tax_weighted(r.h_row.TEAM_ID, inj.h_injuries),
         a_tax_raw |-> get_star_tax_weighted(r.a_row.TEAM_ID, inj.a_injuries),
         h_rest |-> get_rest_penalty(r.h_row.TEAM_ID),
         a_rest |-> get_rest_penalty(r.a_row.TEAM_ID),
         news_factor |-> news_factor_of(get_news,
                            matchup_keywords(t.h_team, t.a_team, home_team, away_team), 1),
         late |-> late_flag], LAMBDA s :
    LET h_row      == r.h_row
        a_row      == r.a_row
        star_tax_failed == star_tax_failed_of(s.h_tax_raw, s.a_tax_raw)
        flag       == s.late \/ star_tax_failed
        h_tax      == tax_or_zero(s.h_tax_raw)
        a_tax      == tax_or_zero(s.a_tax_raw)
        rest_adj   == s.h_rest - s.a_rest
        hca        == HCA_FLAT
        h_off      == Regress(h_row.OFF_RATING, LEAGUE_BASELINE.OFF_RATING)
        h_def      == Regress(h_row.DEF_RATING, LEAGUE_BASELINE.DEF_RATING)
        a_off      == Regress(a_row.OFF_RATING, LEAGUE_BASELINE.OFF_RATING)
        a_def      == Regress(a_row.DEF_RATING, LEAGUE_BASELINE.DEF_RATING)
        raw_diff   == (h_off - a_def) - (a_off - h_def)
        pace2      == h_row.PACE + a_row.PACE      \* twice expected_pace, tenths
        \* 2000 times the unrounded fair line: raw_diff * (expected_pace / 100) is
        \* raw_diff * pace2 / 2000
        matchup_num == raw_diff * pace2
        fair_num   == matchup_num + 2000 * (hca + rest_adj - h_tax + a_tax + s.news_factor)
    IN  [ok |-> TRUE, error |-> "", h_team |-> t.h_team, a_team |-> t.a_team,
         fair_line |-> 10 * RoundHalfEven(fair_num, 20000),
         q_players |-> names_where_questionable(inj.h_injuries \o inj.a_injuries, 1),
         flag |-> flag, star_tax_failed |-> star_tax_failed,
         h_tax_raw |-> s.h_tax_raw, a_tax_raw |-> s.a_tax_raw,
         h_injuries |-> inj.h_injuries, a_injuries |-> inj.a_injuries,
         news_factor |-> s.news_factor, rest_adj |-> rest_adj,
         matchup_num |-> matchup_num, fair_num |-> fair_num])))))))

(***************************************************************************)
(* The decomposition reporter                                              *)
(***************************************************************************)
\* edge_analyzer.decompose_edge(away_team, home_team, market_line): the fields of the
\* returned dict the checks read, or the exception raised
decompose_edge(away_team, home_team, market_line) ==
    Let(calculate_pace_and_ratings, LAMBDA ratings :
    Let({ratings[i].TEAM_NAME : i \in 1..Len(ratings)}, LAMBDA team_names :
    Let([h_team |-> ea_fuzzy_team_match[home_team, team_names],
         a_team |-> ea_fuzzy_team_match[away_team, team_names]], LAMBDA t :
    Let([h |-> RowsOf(ratings, t.h_team), a |-> RowsOf(ratings, t.a_team)], LAMBDA rows :
    IF rows.h = {} \/ rows.a = {}
    THEN [ok |-> FALSE, error |-> "Team not found: " \o away_team \o " or " \o home_team,
          home |-> t.h_team, away |-> t.a_team]
    ELSE
    Let([h_row |-> ratings[CHOOSE i \in rows.h : TRUE],
         a_row |-> ratings[CHOOSE i \in rows.a : TRUE]], LAMBDA r :
    Let([h_injuries |-> get_injuries(r.h_row.TEAM_NAME),
         a_injuries |-> get_injuries(r.a_row.TEAM_NAME)], LAMBDA inj :
    Let([h_tax_raw |-> get_star_tax_weighted(r.h_row.TEAM_ID, inj.h_injuries),
         a_tax_raw |-> get_star_tax_weighted(r.a_row.TEAM_ID, inj.a_injuries),
         h_rest |-> get_rest_penalty(r.h_row.TEAM_ID),
         a_rest |-> get_rest_penalty(r.a_row.TEAM_ID),
         news_factor |-> news_factor_of(get_news,
                            matchup_keywords(t.h_team, t.a_team, home_team, away_team), 1)],
        LAMBDA s :
    \* 'questionable' in p.get('status', '') with a float status raises TypeError
    IF \E p \in Range(inj.h_injuries \o inj.a_injuries) : p.status = NaN
    THEN [ok |-> FALSE, error |-> "TypeError in q_players",
          home |-> t.h_team, away |-> t.a_team]
    ELSE
    LET h_row      == r.h_row
        a_row      == r.a_row
        h_off      == Regress(h_row.OFF_RATING, LEAGUE_BASELINE.OFF_RATING)
        h_def      == Regress(h_row.DEF_RATING, LEAGUE_BASELINE.DEF_RATING)
        a_off      == Regress(a_row.OFF_RATING, LEAGUE_BASELINE.OFF_RATING)
        a_def      == Regress(a_row.DEF_RATING, LEAGUE_BASELINE.DEF_RATING)
        \* tenths
        raw_diff_pre  == (h_row.OFF_RATING - a_row.DEF_RATING)
                         - (a_row.OFF_RATING - h_row.DEF_RATING)
        \* milli
        raw_diff_post == (h_off - a_def) - (a_off - h_def)
        regression_impact == raw_diff_post - 100 * raw_diff_pre
        pace2      == h_row.PACE + a_row.PACE
        hca        == HCA_FLAT
        \* 3.0 + (h_net_raw - a_net_raw) / 20, milli
        old_hca    == 3000 + 5 * (h_row.NET_RATING - a_row.NET_RATING)
        rest_adj   == s.h_rest - s.a_rest
        star_tax_failed == star_tax_failed_of(s.h_tax_raw, s.a_tax_raw)
        h_tax      == tax_or_zero(s.h_tax_raw)
        a_tax      == tax_or_zero(s.a_tax_raw)
        \* 2000 times matchup_component, fair_line and old_fair_line
        matchup_num  == raw_diff_post * pace2
        fair_num     == matchup_num + 2000 * (hca + rest_adj - h_tax + a_tax + s.news_factor)
        old_fair_num == (100 * raw_diff_pre * pace2)
                        + 2000 * (old_hca + rest_adj - h_tax + a_tax + s.news_factor)
    IN  [ok |-> TRUE, error |-> "", home |-> t.h_team, away |-> t.a_team,
         raw_diff_pre |-> round2(100 * raw_diff_pre),
         raw_diff_post |-> round2(raw_diff_post),
         regression_impact |-> round2(regression_impact),
         matchup_component |-> 10 * RoundHalfEven(matchup_num, 20000),
         hca |-> hca, old_hca |-> round2(old_hca), rest_adj |-> rest_adj,
         h_tax |-> h_tax, a_tax |-> a_tax, star_tax_failed |-> star_tax_failed,
         news_factor |-> s.news_factor,
         fair_line |-> 10 * RoundHalfEven(fair_num, 20000),
         old_fair_line |-> 10 * RoundHalfEven(old_fair_num, 20000),
         market_line |-> market_line,
         edge |-> IF market_line.is_none THEN None
                  ELSE Num(10 * RoundHalfEven(Abs(fair_num - 2000 * market_line.v), 20000)),
         q_players |-> names_where_questionable(inj.h_injuries \o inj.a_injuries, 1)])))))))

NoOut == [op |-> "none"]

(***************************************************************************)
(* Compositor and reporter: calls on one set of cached snapshots           *)
(***************************************************************************)
InitCompositor ==
    /\ stats_cache = StatsA
    /\ injuries_csv \in InjuryFiles
    /\ rest_csv \in RestFiles
    /\ star_cache \in StarFiles
    /\ news_cache \in NewsFiles
    /\ today = 1
    /\ bankroll = [status |-> "missing", edge_cap |-> None]
    /\ tracker = << >>
    /\ tracker_bak = NoFile
    /\ schedule = {"G1"}
    /\ out = NoOut

\* a caller invokes predict_nba_spread(away, home)
PredictCall ==
    \E m \in Matchups :
        /\ out' = [op |-> "predict", away_in |-> m[1], home_in |-> m[2],
                   res |-> predict_nba_spread(m[1], m[2])]
        /\ UNCHANGED <<stored, today, session>>

\* the analyzer's live matchup decomposition invokes decompose_edge(away, home, market)
DecomposeCall ==
    \E m \in Matchups, market \in {None, Num(-2500)} :
        /\ out' = [op |-> "decompose", away_in |-> m[1], home_in |-> m[2],
                   res |-> decompose_edge(m[1], m[2], market)]
        /\ UNCHANGED <<stored, today, session>>

\* midnight passes
Tick ==
    /\ today < MaxDay
    /\ today' = today + 1
    /\ UNCHANGED <<stored, session, out>>

NextCompositor == PredictCall \/ DecomposeCall \/ Tick

\* the same calls on situational caches that hold malformed rows
InitSituational ==
    /\ stats_cache = StatsA
    /\ injuries_csv \in MalformedInjuryFiles
    /\ rest_csv \in RestFiles \cup MalformedRestFiles
    /\ star_cache \in {StarFull, StarNoClaxton, [status |-> "missing", teams |-> {}]}
    /\ news_cache = [status |-> "missing", data |-> << >>]
    /\ today = 1
    /\ bankroll = [status |-> "missing", edge_cap |-> None]
    /\ tracker = << >>
    /\ tracker_bak = NoFile
    /\ schedule = {"G1"}
    /\ out = NoOut

SpecSituational == InitSituational /\ [][NextCompositor]_vars

\* the same calls on the rating table of the worked example
InitExample ==
    /\ stats_cache = StatsExample
    /\ injuries_csv \in {[status |-> "missing", rows |-> << >>],
                         [status |-> "ok", rows |-> << >>],
                         [status |-> "ok", rows |-> <<InjuryPool[4]>>]}
    /\ rest_csv \in RestFiles
    /\ star_cache \in StarFiles
    /\ news_cache \in {[status |-> "missing", data |-> << >>],
                       [status |-> "ok", data |-> <<NewsPool[3]>>]}
    /\ today = 1
    /\ bankroll = [status |-> "missing", edge_cap |-> None]
    /\ tracker = << >>
    /\ tracker_bak = NoFile
    /\ schedule = {"G1"}
    /\ out = NoOut

SpecExample == InitExample /\ [][NextCompositor]_vars

(***************************************************************************)
(* One process over time: calls of the compositor between refreshes of the *)
(* data on disk                                                            *)
(***************************************************************************)
\* what a run of the data fetchers may leave in nba_stats_cache.json
FetchedStats == {StatsA, StatsExample}

\* what a run of the data fetchers may leave in nba_injuries.csv
FetchedInjuries == {[status |-> "ok", rows |-> << >>],
                    [status |-> "ok", rows |-> <<InjuryPool[1]>>]}

\* the data fetchers are run outside the process (fetch_all_nba_data.sh from a shell)
FetchData ==
    /\ stats_cache' \in FetchedStats
    /\ injuries_csv' \in FetchedInjuries
    /\ UNCHANGED <<rest_csv, star_cache, news_cache, bankroll, tracker, tracker_bak,
                   today, session, out>>

\* run_ui, command R: the data fetchers are run and, when they succeed, the rating
\* table is read again with force_refresh=True (the table read is not kept)
RefreshCommand ==
    \/ /\ stats_cache' \in FetchedStats
       /\ injuries_csv' \in FetchedInjuries
       /\ out' = [op |-> "refresh", ok |-> TRUE]
       /\ UNCHANGED <<rest_csv, star_cache, news_cache, bankroll, tracker, tracker_bak,
                      today, session>>
    \/ /\ out' = [op |-> "refresh", ok |-> FALSE]
       /\ UNCHANGED <<stored, today, session>>

InitProcess ==
    /\ stats_cache \in FetchedStats \cup {[status |-> "missing", rows |-> << >>],
                                          [status |-> "corrupt", rows |-> << >>]}
    /\ injuries_csv \in FetchedInjuries
    /\ rest_csv = [status |-> "missing", rows |-> << >>]
    /\ star_cache \in {StarFull, [status |-> "missing", teams |-> {}]}
    /\ news_cache = [status |-> "missing", data |-> << >>]
    /\ today = 1
    /\ bankroll = [status |-> "missing", edge_cap |-> None]
    /\ tracker = << >>
    /\ tracker_bak = NoFile
    /\ schedule = {"G1"}
    /\ out = NoOut

NextProcess ==
    \/ PredictCall
    \/ DecomposeCall
    \/ FetchData
    \/ RefreshCommand

SpecProcess == InitProcess /\ [][NextProcess]_vars

SpecCompositor == InitCompositor /\ [][NextCompositor]_vars

(***************************************************************************)
(* Staking: nba_engine_ui.py                                               *)
(***************************************************************************)
DEFAULT_EDGE_CAP == 10000       \* milli

\* load_edge_cap(): json.load(f).get('edge_cap', DEFAULT_EDGE_CAP), or the default when
\* bankroll.json is missing or is not JSON
load_edge_cap ==
    IF bankroll.status = "ok" /\ ~bankroll.edge_cap.is_none
    THEN bankroll.edge_cap.v
    ELSE DEFAULT_EDGE_CAP

\* b = 0.91, in hundredths
KELLY_B == 91

\* full Kelly, the quarter left out
calculate_kelly_full(market, fair_line) ==
    LET edge == Abs(fair_line - market)
        prob == Min(700000, Max(480000, 524000 + (edge * 15)))
    IN  RoundHalfEven(Max(0, ((100 + KELLY_B) * prob) - 100000000), 100 * KELLY_B)

\* calculate_kelly(market, fair_line), in hundredths of a percent.  With prob in
\* millionths, kelly_f = ((b + 1) * prob - 1) / b, and round(max(0, kelly_f * 0.25)
\* * 100, 2) is max(0, (100 + KELLY_B) * prob - 10^8) / (400 * KELLY_B) hundredths.
calculate_kelly(market, fair_line) ==
    LET edge == Abs(fair_line - market)
        prob == Min(700000, Max(480000, 524000 + (edge * 15)))
    IN  RoundHalfEven(Max(0, ((100 + KELLY_B) * prob) - 100000000), 400 * KELLY_B)

\* the confidence grades, as the strings the code assigns (its long dash written "-")
CONF_HIGH == "HIGH"

CONF_STAR_TAX == "MEDIUM (Star Tax API failed - injury impact unknown)"

CONF_LOW == "LOW (High Injury Volatility)"

CONF_MEDIUM == "MEDIUM"

CONF_STAR_TAX_RECALC == "MEDIUM (Star Tax API failed)"

\* run_ui, game analysis: edge = min(raw_edge, EDGE_CAP)
analysis_edge(raw_edge, EDGE_CAP) == Min(raw_edge, EDGE_CAP)

\* run_ui, game analysis: the confidence grade
analysis_conf(star_tax_failed, q_players) ==
    IF star_tax_failed THEN CONF_STAR_TAX
    ELSE IF Len(q_players) >= 2 THEN CONF_LOW
    ELSE IF Len(q_players) = 1 THEN CONF_MEDIUM
    ELSE CONF_HIGH

\* run_ui, game analysis: recommendation = home if fair_line < market else away
analysis_recommendation(home, away, fair_line, market) ==
    IF fair_line < market THEN home ELSE away

\* the signal line printed under a recommendation ("HIGH" in conf holds of CONF_HIGH only)
signal_of(edge, edge_capped, conf) ==
    IF edge_capped THEN "REVIEW REQUIRED"
    ELSE IF edge >= 5000 /\ conf = CONF_HIGH THEN "STRONG SIGNAL"
    ELSE IF edge >= 3000 THEN "LEAN"
    ELSE "LOW EDGE"

\* run_ui, game analysis: everything computed from predict_nba_spread's result and the
\* market line, before the bet is logged
game_analysis(away, home, market, res) ==
    LET fair_line   == res.fair_line
        raw_edge    == round2(Abs(fair_line - market))
        EDGE_CAP    == load_edge_cap
        edge        == analysis_edge(raw_edge, EDGE_CAP)
        edge_capped == raw_edge > EDGE_CAP
        kelly       == calculate_kelly(market, fair_line)
        conf        == analysis_conf(res.star_tax_failed, res.q_players)
        recommendation == analysis_recommendation(home, away, fair_line, market)
    IN  [away |-> away, home |-> home, fair_line |-> fair_line, market |-> market,
         raw_edge |-> raw_edge, EDGE_CAP |-> EDGE_CAP, edge |-> edge,
         edge_capped |-> edge_capped, kelly |-> kelly, conf |-> conf,
         q_players |-> res.q_players, flag |-> res.flag,
         star_tax_failed |-> res.star_tax_failed,
         recommendation |-> recommendation,
         signal |-> signal_of(edge, edge_capped, conf)]

\* run_ui, upcoming-game preview: edge = min(raw_edge, EDGE_CAP)
preview_edge(raw_edge, EDGE_CAP) == Min(raw_edge, EDGE_CAP)

\* run_ui, upcoming-game preview: the confidence grade
preview_conf(star_tax_failed, q_players) ==
    IF star_tax_failed THEN CONF_STAR_TAX
    ELSE IF Len(q_players) >= 2 THEN CONF_LOW
    ELSE IF Len(q_players) = 1 THEN CONF_MEDIUM
    ELSE CONF_HIGH

\* run_ui, upcoming-game preview: recommendation = u_home if fair_line < market else u_away
preview_recommendation(u_home, u_away, fair_line, market) ==
    IF fair_line < market THEN u_home ELSE u_away

\* run_ui, upcoming-game preview: the inline analysis of the U loop
preview_analysis(u_away, u_home, market, res) ==
    LET fair_line   == res.fair_line
        raw_edge    == round2(Abs(fair_line - market))
        EDGE_CAP    == load_edge_cap
        edge        == preview_edge(raw_edge, EDGE_CAP)
        edge_capped == raw_edge > EDGE_CAP
        kelly       == calculate_kelly(market, fair_line)
        conf        == preview_conf(res.star_tax_failed, res.q_players)
        recommendation == preview_recommendation(u_home, u_away, fair_line, market)
    IN  [away |-> u_away, home |-> u_home, fair_line |-> fair_line, market |-> market,
         raw_edge |-> raw_edge, EDGE_CAP |-> EDGE_CAP, edge |-> edge,
         edge_capped |-> edge_capped, kelly |-> kelly, conf |-> conf,
         q_players |-> res.q_players, flag |-> res.flag,
         star_tax_failed |-> res.star_tax_failed,
         recommendation |-> recommendation,
         signal |-> signal_of(edge, edge_capped, conf)]

(***************************************************************************)
(* The bet tracker                                                         *)
(***************************************************************************)
\* cell.rstrip('%')
rstrip_pct(cell) == IF cell.kind = "pct" THEN NumCell(cell.n) ELSE cell

\* str.upper()
RECURSIVE UpperText(_)
UpperText(s) ==
    IF s = "" THEN ""
    ELSE LET c == SubSeq(s, 1, 1)
             up == {i \in 1..Len(LowerCase) : SubSeq(LowerCase, i, i) = c}
         IN  (IF up = {} THEN c ELSE LET i == CHOOSE i \in up : TRUE IN SubSeq(UpperCase, i, i))
             \o UpperText(SubSeq(s, 2, Len(s)))

\* the 24-column header log_bet writes
header == <<"ID", "Timestamp", "Away", "Home", "Fair", "Market", "Edge", "Raw_Edge",
            "Edge_Capped", "Kelly", "Confidence", "Pick", "Type", "Book", "Odds", "Bet",
            "ToWin", "Result", "Payout", "Notes", "ClosingLine", "CLV", "PreflightCheck",
            "PreflightNote">>

\* _calc_to_win(odds, bet_amount): the payout of a stake at American odds (milli)
calc_to_win(odds, bet_amount) ==
    LET o == to_float(odds)
        b == to_float(bet_amount)
    IN  IF o.is_none \/ b.is_none THEN Empty
        ELSE IF o.v > 0 THEN NumCell(10 * RoundHalfEven(b.v * o.v, 1000000))
        ELSE IF o.v < 0 THEN NumCell(10 * RoundHalfEven(b.v * 100000, 10 * Abs(o.v)))
        ELSE Empty

\* log_bet with the existing entry of the game left in the file
log_bet_append(gid, away, home, f_line, m_line, edge, rec, kelly, confidence, bet_type, book, odds, bet_amount, raw_edge, edge_capped, notes) ==
    LET timestamp == DayLabels[today]
        to_win == calc_to_win(odds, bet_amount)
        capped_str == IF edge_capped THEN "YES" ELSE "NO"
        new_row == [ID |-> TextCell(gid), Timestamp |-> TextCell(timestamp),
                    Away |-> TextCell(away), Home |-> TextCell(home),
                    Fair |-> NumCell(f_line), Market |-> NumCell(m_line),
                    Edge |-> NumCell(edge), Raw_Edge |-> NumCell(raw_edge),
                    Edge_Capped |-> TextCell(capped_str), Kelly |-> PctCell(kelly),
                    Confidence |-> TextCell(confidence), Pick |-> TextCell(rec),
                    Type |-> TextCell(bet_type), Book |-> TextCell(book),
                    Odds |-> odds, Bet |-> bet_amount, ToWin |-> to_win,
                    Result |-> TextCell("PENDING"), Payout |-> Empty,
                    Notes |-> TextCell(notes), ClosingLine |-> Empty, CLV |-> Empty,
                    PreflightCheck |-> Empty, PreflightNote |-> Empty]
        other(row) == ~(row.ID = TextCell(gid) /\ row.Away = TextCell(away)
                        /\ row.Home = TextCell(home))
    IN  tracker \o <<new_row>>

\* log_bet(...): the rows of today's tracker after the call.  The rows of the model's
\* tracker are all in the 24-column format, which the migration step leaves as they
\* are; the preflight status file is absent, which leaves both stamps empty.
log_bet(gid, away, home, f_line, m_line, edge, rec, kelly, confidence, bet_type, book, odds, bet_amount, raw_edge, edge_capped, notes) ==
    LET timestamp == DayLabels[today]
        to_win == calc_to_win(odds, bet_amount)
        capped_str == IF edge_capped THEN "YES" ELSE "NO"
        new_row == [ID |-> TextCell(gid), Timestamp |-> TextCell(timestamp),
                    Away |-> TextCell(away), Home |-> TextCell(home),
                    Fair |-> NumCell(f_line), Market |-> NumCell(m_line),
                    Edge |-> NumCell(edge), Raw_Edge |-> NumCell(raw_edge),
                    Edge_Capped |-> TextCell(capped_str), Kelly |-> PctCell(kelly),
                    Confidence |-> TextCell(confidence), Pick |-> TextCell(rec),
                    Type |-> TextCell(bet_type), Book |-> TextCell(book),
                    Odds |-> odds, Bet |-> bet_amount, ToWin |-> to_win,
                    Result |-> TextCell("PENDING"), Payout |-> Empty,
                    Notes |-> TextCell(notes), ClosingLine |-> Empty, CLV |-> Empty,
                    PreflightCheck |-> Empty, PreflightNote |-> Empty]
        other(row) == ~(row.ID = TextCell(gid) /\ row.Away = TextCell(away)
                        /\ row.Home = TextCell(home))
    IN  SelectSeq(tracker, other) \o <<new_row>>

(***************************************************************************)
(* run_ui: the schedule and the two analysis flows                         *)
(***************************************************************************)
\* today's games and the upcoming ones, <<away, home>> by game id
Games == [G1 |-> <<"Boston Celtics", "Brooklyn Nets">>,
          U1 |-> <<"Brooklyn Nets", "Boston Celtics">>]

TodayIds == {"G1"}

UpcomingIds == {"U1"}

\* choice.startswith('U')
is_upcoming_id(choice) == SubSeq(choice, 1, 1) = "U"

\* what the user types at the market-line prompt
LineInputs == {Empty, TextCell("pk")} \cup {NumCell(m) : m \in Markets}

\* what the user types at the pick prompt
PickInputs == {"", "Boston Celtics"}

\* run_ui, a game id typed at the scoreboard: the analysis and, for a game of today,
\* the logging flow (every other prompt answered with Enter)
AnalyzeGame ==
    \E choice \in schedule, line_in \in LineInputs, pick_in \in PickInputs :
        LET away   == Games[choice][1]
            home   == Games[choice][2]
            market == to_float(line_in)
            bet_type == "Spread"
        IN  /\ IF line_in = Empty
               THEN /\ out' = [op |-> "analyze", gid |-> choice, ok |-> FALSE,
                                error |-> "No market line entered"]
                    /\ UNCHANGED tracker
               ELSE IF market.is_none
               THEN /\ out' = [op |-> "analyze", gid |-> choice, ok |-> FALSE,
                                error |-> "Invalid market line"]
                    /\ UNCHANGED tracker
               ELSE \E res \in {predict_nba_spread(away, home)} :
                    IF ~res.ok
                    THEN /\ out' = [op |-> "analyze", gid |-> choice, ok |-> FALSE,
                                     error |-> res.error]
                         /\ UNCHANGED tracker
                    ELSE \E a \in {game_analysis(away, home, market.v, res)} :
                         IF is_upcoming_id(choice)
                         THEN /\ out' = [op |-> "analyze", gid |-> choice, ok |-> TRUE,
                                          logged |-> FALSE, a |-> a, pick |-> ""]
                              /\ UNCHANGED tracker
                         ELSE \E pick \in {IF pick_in # "" THEN pick_in
                                            ELSE a.recommendation} :
                              /\ out' = [op |-> "analyze", gid |-> choice, ok |-> TRUE,
                                          logged |-> TRUE, a |-> a, pick |-> pick]
                              /\ tracker' = log_bet(choice, away, home, a.fair_line,
                                                    market.v, a.edge, pick, a.kelly,
                                                    a.conf, bet_type, "", Empty, Empty,
                                                    a.raw_edge, a.edge_capped, "")
            /\ UNCHANGED <<snapshot, bankroll, tracker_bak, today, schedule>>

\* what the user types in the upcoming-games loop
UpcomingInputs == {"Q", "U1", "U9"}

\* run_ui, 'U': one pass of the upcoming-games loop.  The upcoming games are merged
\* into the schedule, then the chosen one is previewed; nothing is logged.
PreviewUpcoming ==
    \E u_choice \in UpcomingInputs, line_in \in LineInputs :
        LET merged == schedule \cup UpcomingIds
            u_away == Games[u_choice][1]
            u_home == Games[u_choice][2]
            market == to_float(line_in)
        IN  /\ schedule' = merged
            /\ IF u_choice = "Q"
               THEN out' = [op |-> "preview", gid |-> u_choice, ok |-> FALSE, error |-> ""]
               ELSE IF u_choice \notin merged
               THEN out' = [op |-> "preview", gid |-> u_choice, ok |-> FALSE,
                            error |-> "Command not recognized"]
               ELSE IF line_in = Empty
               THEN out' = [op |-> "preview", gid |-> u_choice, ok |-> FALSE,
                            error |-> "No market line entered"]
               ELSE IF market.is_none
               THEN out' = [op |-> "preview", gid |-> u_choice, ok |-> FALSE,
                            error |-> "Invalid market line"]
               ELSE \E res \in {predict_nba_spread(u_away, u_home)} :
                    IF ~res.ok
                    THEN out' = [op |-> "preview", gid |-> u_choice, ok |-> FALSE,
                                 error |-> res.error]
                    ELSE out' = [op |-> "preview", gid |-> u_choice, ok |-> TRUE,
                                 a |-> preview_analysis(u_away, u_home, market.v, res)]
            /\ UNCHANGED <<stored, today>>

(***************************************************************************)
(* display_pretipoff_review                                                *)
(***************************************************************************)
\* odds_cache.json as the review may find it
OddsFiles == {
    [status |-> "missing", games |-> << >>],
    [status |-> "ok", games |-> <<[key |-> "Lakers @ Clippers", consensus_line |-> Empty],
                                  [key |-> "Celtics @ Nets", consensus_line |-> NumCell(3250)]>>] }

\* float(cell) if cell else 0.0
float_or_zero(cell) == IF cell = Empty THEN Num(0) ELSE to_float(cell)

\* round(x, 1)
round1(x) == 100 * RoundHalfEven(x, 100)

\* the edge with the cap left out
review_edge_uncapped(raw_new_edge, EDGE_CAP) == raw_new_edge

\* display_pretipoff_review: new_edge = min(raw_new_edge, EDGE_CAP)
review_edge(raw_new_edge, EDGE_CAP) == Min(raw_new_edge, EDGE_CAP)

\* the rows of get_injuries().get(team, []) whose status contains 'out'
outs_of(players) ==
    LET is_out(p) == Contains("out", lower(p.status)) IN SelectSeq(players, is_out)

\* the rows that are not out and are game-time, questionable, doubtful or day-to-day
gtds_of(players) ==
    LET is_gtd(p) ==
            /\ ~Contains("out", lower(p.status))
            /\ \/ Contains("game time", lower(p.status))
               \/ Contains("questionable", lower(p.status))
               \/ Contains("doubtful", lower(p.status))
               \/ Contains("day-to-day", lower(p.status))
    IN  SelectSeq(players, is_gtd)

\* display_pretipoff_review, the body of the loop over the placed bets
review_bet(bet, odds_data, EDGE_CAP) ==
    Let(predict_nba_spread(bet.away, bet.home), LAMBDA res :
    Let({i \in 1..Len(odds_data) :
            /\ Contains(lower(LastWord(bet.away)), lower(odds_data[i].key))
            /\ Contains(lower(LastWord(bet.home)), lower(odds_data[i].key))}, LAMBDA keys :
    Let([current_market |-> IF keys = {} THEN None
                            ELSE to_float(odds_data[SetMin(keys)].consensus_line),
         away_inj |-> get_injuries(bet.away),
         home_inj |-> get_injuries(bet.home)], LAMBDA c :
    Let(IF ~c.current_market.is_none THEN c.current_market.v ELSE bet.market_orig,
        LAMBDA market_for_edge :
    Let(round2(Abs(res.fair_line - market_for_edge)), LAMBDA raw_new_edge :
    Let(review_edge(raw_new_edge, EDGE_CAP), LAMBDA new_edge :
    LET home == bet.home
        out_players == outs_of(c.away_inj \o c.home_inj)
        gtd_players == gtds_of(c.away_inj \o c.home_inj)
        movement == IF c.current_market.is_none THEN None
                    ELSE Num(round1(c.current_market.v - bet.market_orig))
        new_fair == res.fair_line
        betted_team_inj == IF bet.pick = home THEN c.home_inj ELSE c.away_inj
        major_outs == outs_of(betted_team_inj)
        first_action ==
            IF new_edge >= bet.edge_orig THEN "HOLD"
            ELSE IF new_edge >= 1000 THEN "HOLD"
            ELSE IF out_players # << >> THEN "HEDGE"
            ELSE "REVIEW"
        action ==
            IF major_outs # << >> /\ new_edge < bet.edge_orig /\ first_action # "HEDGE"
            THEN "REVIEW" ELSE first_action
    IN  IF res.ok
        THEN [gid |-> bet.gid, recalculated |-> TRUE, current_market |-> c.current_market,
              movement |-> movement, new_fair |-> new_fair,
              market_for_edge |-> market_for_edge, raw_new_edge |-> raw_new_edge,
              new_edge |-> new_edge, EDGE_CAP |-> EDGE_CAP, action |-> action,
              out_players |-> out_players, gtd_players |-> gtd_players]
        ELSE [gid |-> bet.gid, recalculated |-> FALSE, current_market |-> c.current_market,
              movement |-> movement, new_fair |-> 0, market_for_edge |-> 0,
              raw_new_edge |-> 0, new_edge |-> 0, EDGE_CAP |-> EDGE_CAP,
              action |-> "HOLD", out_players |-> out_players,
              gtd_players |-> gtd_players]))))))

\* the number of reviews that ended in the action
action_count(reviews, action) == Cardinality({i \in 1..Len(reviews) : reviews[i].action = action})

\* display_pretipoff_review(): the bets of today's tracker against the fresh snapshots
\* and the odds cache read at that moment
PretipoffReview ==
    \E odds_cache \in OddsFiles :
        LET fair_orig(row)   == float_or_zero(row.Fair)
            market_orig(row) == float_or_zero(row.Market)
            edge_orig(row)   == float_or_zero(row.Edge)
            unreadable == \E i \in 1..Len(tracker) :
                             \/ fair_orig(tracker[i]).is_none
                             \/ market_orig(tracker[i]).is_none
                             \/ edge_orig(tracker[i]).is_none
            bet(row) == [gid |-> row.ID.s, away |-> row.Away.s, home |-> row.Home.s,
                         fair_orig |-> fair_orig(row).v,
                         market_orig |-> market_orig(row).v,
                         edge_orig |-> edge_orig(row).v,
                         pick |-> row.Pick.s, timestamp |-> row.Timestamp.s]
            odds_data == IF odds_cache.status = "ok" THEN odds_cache.games ELSE << >>
        IN  /\ IF tracker = << >>
               THEN out' = [op |-> "pretipoff", ok |-> FALSE, error |-> "No bets placed today"]
               ELSE IF unreadable
               THEN out' = [op |-> "pretipoff", ok |-> FALSE, error |-> "ValueError"]
               ELSE \E EDGE_CAP \in {load_edge_cap} :
                    \E reviews \in {[i \in 1..Len(tracker) |->
                                        Let(bet(tracker[i]), LAMBDA b :
                                            review_bet(b, odds_data, EDGE_CAP))]} :
                        out' = [op |-> "pretipoff", ok |-> TRUE, reviews |-> reviews,
                                holds |-> action_count(reviews, "HOLD"),
                                hedges |-> action_count(reviews, "HEDGE"),
                                reviews_needed |-> action_count(reviews, "REVIEW")]
            /\ UNCHANGED <<stored, today, schedule>>

(***************************************************************************)
(* recalc_trackers.py                                                      *)
(***************************************************************************)
\* recalc_file: recommendation = home if fair_line < market else away
recalc_recommendation(home, away, fair_line, market) ==
    IF fair_line < market THEN home ELSE away

\* recalc_file: the confidence written back
recalc_conf(star_tax_failed, q_players) ==
    IF star_tax_failed THEN CONF_STAR_TAX_RECALC
    ELSE IF Len(q_players) >= 2 THEN CONF_LOW
    ELSE IF Len(q_players) = 1 THEN CONF_MEDIUM
    ELSE CONF_HIGH

\* recalc_file, the body of the loop over the data rows: the row as written back and
\* what was computed for it
recalc_row(row) ==
    IF to_float(row.Market).is_none
    THEN [updated |-> FALSE, row |-> row, home |-> row.Home.s, away |-> row.Away.s,
          fair_line |-> 0, market |-> 0, edge |-> 0, kelly |-> 0,
          recommendation |-> "", conf |-> "", star_tax_failed |-> FALSE,
          q_players |-> << >>]
    ELSE
    Let(predict_nba_spread(row.Away.s, row.Home.s), LAMBDA res :
    LET away   == row.Away.s
        home   == row.Home.s
        market == to_float(row.Market)
        fair_line == res.fair_line
        edge   == round2(Abs(fair_line - market.v))
        kelly  == calculate_kelly(market.v, fair_line)
        recommendation == recalc_recommendation(home, away, fair_line, market.v)
        conf   == recalc_conf(res.star_tax_failed, res.q_players)
    IN  IF ~res.ok
        THEN [updated |-> FALSE, row |-> row, home |-> home, away |-> away,
              fair_line |-> 0, market |-> 0, edge |-> 0, kelly |-> 0,
              recommendation |-> "", conf |-> "", star_tax_failed |-> FALSE,
              q_players |-> << >>]
        ELSE [updated |-> TRUE,
              row |-> [row EXCEPT !.Fair = NumCell(fair_line), !.Edge = NumCell(edge),
                                  !.Kelly = PctCell(kelly),
                                  !.Pick = TextCell(recommendation),
                                  !.Confidence = TextCell(conf)],
              home |-> home, away |-> away, fair_line |-> fair_line, market |-> market.v,
              edge |-> edge, kelly |-> kelly, recommendation |-> recommendation,
              conf |-> conf, star_tax_failed |-> res.star_tax_failed,
              q_players |-> res.q_players])

\* recalc_trackers.main(): recalc_file on every tracker file, here the day's one
RecalcMain ==
    \E done \in {[i \in 1..Len(tracker) |-> recalc_row(tracker[i])]} :
        /\ tracker' = [i \in 1..Len(tracker) |-> done[i].row]
        /\ out' = [op |-> "recalc", found |-> tracker # << >>, rows |-> done,
                   updated |-> Cardinality({i \in 1..Len(done) : done[i].updated})]
        /\ UNCHANGED <<snapshot, bankroll, tracker_bak, today, schedule>>

(***************************************************************************)
(* validate_historical_bets                                                *)
(***************************************************************************)
Issue(sev, check, got, want) == [sev |-> sev, check |-> check, got |-> got, want |-> want]

\* the rule with the tie given to the home side
expected_rec_tie(home, away, fair, market) ==
    IF fair <= market THEN home ELSE away

\* validate_historical_bets: expected_rec = home if fair < market else away
expected_rec(home, away, fair, market) ==
    IF fair < market THEN home ELSE away

\* the tally of a row under the other order of the two tests
row_tally_warn_first(row_issues) ==
    IF \E i \in 1..Len(row_issues) : row_issues[i].sev = "WARN" THEN "warning"
    ELSE IF \E i \in 1..Len(row_issues) : row_issues[i].sev = "ERROR" THEN "error"
    ELSE "clean"

\* validate_historical_bets, "Tally": the counter a row adds one to
row_tally(row_issues) ==
    IF \E i \in 1..Len(row_issues) : row_issues[i].sev = "ERROR" THEN "error"
    ELSE IF \E i \in 1..Len(row_issues) : row_issues[i].sev = "WARN" THEN "warning"
    ELSE "clean"

\* validate_historical_bets, the body of the loop over the data rows: the issues of
\* one row, in the order they are appended, and the locals they were decided from
validate_row(row, EDGE_CAP) ==
    LET fair_s == row.Fair
        market_s == row.Market
        pick == row.Pick.s
        away == row.Away.s
        home == row.Home.s
        fair == to_float(fair_s)
        market == to_float(market_s)
        edge_recorded == to_float(row.Edge)
        parse_issues ==
            (IF fair.is_none /\ fair_s # Empty
             THEN <<Issue("ERROR", "Fair non-numeric", fair_s, Empty)>> ELSE << >>)
            \o (IF market.is_none /\ market_s # Empty
                THEN <<Issue("ERROR", "Market non-numeric", market_s, Empty)>> ELSE << >>)
        both == ~fair.is_none /\ ~market.is_none
        expected_raw_edge == round2(Abs(fair.v - market.v))
        raw_edge_val == to_float(row.Raw_Edge)
        raw_issues ==
            IF row.Raw_Edge # Empty /\ ~raw_edge_val.is_none
               /\ Abs(raw_edge_val.v - expected_raw_edge) > 50
            THEN <<Issue("ERROR", "Raw_Edge", NumCell(raw_edge_val.v),
                         NumCell(expected_raw_edge))>>
            ELSE << >>
        expected_edge == Min(expected_raw_edge, EDGE_CAP)
        edge_issues ==
            IF ~edge_recorded.is_none
               /\ Abs(edge_recorded.v - expected_edge) > 50
               /\ Abs(edge_recorded.v - expected_raw_edge) > 50
            THEN <<Issue("ERROR", "Edge", NumCell(edge_recorded.v), NumCell(expected_edge))>>
            ELSE << >>
        kelly_recorded == to_float(rstrip_pct(row.Kelly))
        effective_edge == IF edge_recorded.is_none THEN expected_edge ELSE edge_recorded.v
        capped_fair ==
            IF effective_edge < expected_raw_edge
            THEN (IF fair.v > market.v THEN market.v + effective_edge
                  ELSE market.v - effective_edge)
            ELSE fair.v
        expected_kelly == calculate_kelly(market.v, capped_fair)
        kelly_issues ==
            IF row.Kelly = Empty THEN << >>
            ELSE IF kelly_recorded.is_none
            THEN <<Issue("WARN", "Kelly unparseable", row.Kelly, Empty)>>
            ELSE IF Abs(kelly_recorded.v - expected_kelly) > 10
            THEN <<Issue("WARN", "Kelly", PctCell(kelly_recorded.v), PctCell(expected_kelly))>>
            ELSE << >>
        rec == expected_rec(home, away, fair.v, market.v)
        pick_issues ==
            IF pick # "" /\ pick \notin {away, home}
            THEN <<Issue("ERROR", "Pick not in matchup", row.Pick, Empty)>>
            ELSE IF pick # "" /\ away # "" /\ home # "" /\ pick # rec
            THEN <<Issue("INFO", "Pick differs from model rec", row.Pick, TextCell(rec))>>
            ELSE << >>
        edge_capped_s == row.Edge_Capped.s
        cap_issues ==
            IF edge_capped_s = "" THEN << >>
            ELSE IF UpperText(edge_capped_s) = "YES" /\ expected_raw_edge <= EDGE_CAP
            THEN <<Issue("WARN", "Edge_Capped=YES but raw edge <= cap",
                         NumCell(expected_raw_edge), NumCell(EDGE_CAP))>>
            ELSE IF UpperText(edge_capped_s) = "NO" /\ expected_raw_edge > EDGE_CAP
            THEN <<Issue("WARN", "Edge_Capped=NO but raw edge > cap",
                         NumCell(expected_raw_edge), NumCell(EDGE_CAP))>>
            ELSE << >>
        preflight == row.PreflightCheck.s
        preflight_note == row.PreflightNote.s
        preflight_issues ==
            IF preflight = "" /\ preflight_note = ""
            THEN <<Issue("WARN", "No preflight stamp or note", Empty, Empty)>>
            ELSE IF preflight_note # "" /\ Occurs("Historical", preflight_note)
            THEN <<Issue("INFO", "Historical", Empty, Empty)>>
            ELSE << >>
        row_issues ==
            parse_issues
            \o (IF both
                THEN raw_issues \o edge_issues \o kelly_issues \o pick_issues \o cap_issues
                ELSE << >>)
            \o preflight_issues
        rec_made  == both /\ pick # "" /\ pick \in {away, home} /\ away # "" /\ home # ""
    IN  [gid |-> row.ID.s, row_issues |-> row_issues,
         tally |-> row_tally(row_issues),
         home |-> home, away |-> away, fair |-> fair, market |-> market,
         rec_made |-> rec_made,
         expected_rec |-> IF rec_made THEN rec ELSE "",
         bucket |-> IF row.Result.s \in {"WIN", "LOSS", "PUSH"}
                    THEN (IF preflight # "" THEN "verified" ELSE "unverified")
                    ELSE ""]

\* the number of rows with the tally
tally_count(rows, tally) == Cardinality({i \in 1..Len(rows) : rows[i].tally = tally})

\* validate_historical_bets(): the audit of every tracker file, here the day's one
ValidateHistoricalBets ==
    \E EDGE_CAP \in {load_edge_cap} :
    \E rows \in {[i \in 1..Len(tracker) |-> validate_row(tracker[i], EDGE_CAP)]} :
        /\ out' = [op |-> "validate", found |-> tracker # << >>, rows |-> rows,
                   n_bets |-> Len(tracker),
                   n_clean |-> tally_count(rows, "clean"),
                   n_warnings |-> tally_count(rows, "warning"),
                   n_errors |-> tally_count(rows, "error"),
                   verified |-> Cardinality({i \in 1..Len(rows) : rows[i].bucket = "verified"}),
                   unverified |-> Cardinality({i \in 1..Len(rows) : rows[i].bucket = "unverified"})]
        /\ UNCHANGED <<stored, today, schedule>>

(***************************************************************************)
(* The staking session: analyses, reviews, recalculation and audit on one  *)
(* day's tracker                                                           *)
(***************************************************************************)
StakeInjuryFiles == {
    [status |-> "ok", rows |-> << >>],
    [status |-> "ok", rows |-> <<InjuryPool[2], InjuryPool[3]>>],
    [status |-> "ok", rows |-> <<InjuryPool[1], InjuryPool[4]>>] }

BankrollFiles == {
    [status |-> "missing", edge_cap |-> None],
    [status |-> "ok", edge_cap |-> Num(5000)] }

InitStake ==
    /\ stats_cache = StatsA
    /\ injuries_csv \in StakeInjuryFiles
    /\ rest_csv = [status |-> "missing", rows |-> << >>]
    /\ star_cache \in {StarFull, [status |-> "missing", teams |-> {}]}
    /\ news_cache = [status |-> "missing", data |-> << >>]
    /\ today = 1
    /\ bankroll \in BankrollFiles
    /\ tracker = << >>
    /\ tracker_bak = NoFile
    /\ schedule = TodayIds
    /\ out = NoOut

NextStake ==
    \/ AnalyzeGame
    \/ PreviewUpcoming
    \/ PretipoffReview
    \/ RecalcMain
    \/ ValidateHistoricalBets

SpecStake == InitStake /\ [][NextStake]_vars

(***************************************************************************)
(* The audit of a tracker written on an earlier day: recalculation and     *)
(* validation of rows the program did not write in this session            *)
(***************************************************************************)
MaxHistRows == 2    \* data rows in the tracker file

\* a data row of a tracker file, the columns no check reads left as log_bet fills them
HistRow(gid, fair, market, edge, raw_edge, capped, pick, result, preflight, note) ==
    [ID |-> TextCell(gid), Timestamp |-> TextCell("Nov 03"),
     Away |-> TextCell("Boston Celtics"), Home |-> TextCell("Brooklyn Nets"),
     Fair |-> fair, Market |-> market, Edge |-> edge, Raw_Edge |-> raw_edge,
     Edge_Capped |-> TextCell(capped), Kelly |-> Empty,
     Confidence |-> TextCell("HIGH"), Pick |-> TextCell(pick),
     Type |-> TextCell("Spread"), Book |-> Empty, Odds |-> Empty, Bet |-> Empty,
     ToWin |-> Empty, Result |-> TextCell(result), Payout |-> Empty, Notes |-> Empty,
     ClosingLine |-> Empty, CLV |-> Empty,
     PreflightCheck |-> TextCell(preflight), PreflightNote |-> TextCell(note)]

\* a row of empty cells (to _get, a row shorter than the header reads the same)
BlankRow == [c \in Range(header) |-> Empty]

\* rows a tracker file of an earlier day may hold: a consistent one, one whose Edge is
\* off by 3.0 and that has no preflight stamp, one with a non-numeric Fair and a Pick
\* outside the matchup, a blank one, and a numeric one with a Pick outside the matchup
HistoricalPool == <<
    HistRow("G1", NumCell(2700), NumCell(-2500), NumCell(5200), NumCell(5200), "NO",
            "Boston Celtics", "WIN", "PASS", ""),
    HistRow("G2", NumCell(3000), NumCell(-2000), NumCell(8000), Empty, "",
            "Brooklyn Nets", "LOSS", "", ""),
    HistRow("G3", TextCell("n/a"), NumCell(-2500), Empty, Empty, "",
            "Lakers", "PENDING", "", "Historical backfill"),
    BlankRow,
    HistRow("G5", NumCell(2700), NumCell(2700), NumCell(0), Empty, "yes",
            "Lakers", "PUSH", "PASS", "") >>

HistoricalTrackers == SubSeqsUpTo(HistoricalPool, MaxHistRows)

InitAudit ==
    /\ stats_cache = StatsA
    /\ injuries_csv \in StakeInjuryFiles
    /\ rest_csv = [status |-> "missing", rows |-> << >>]
    /\ star_cache \in {StarFull, [status |-> "missing", teams |-> {}]}
    /\ news_cache = [status |-> "missing", data |-> << >>]
    /\ today = 1
    /\ bankroll \in BankrollFiles
    /\ tracker \in HistoricalTrackers
    /\ tracker_bak = NoFile
    /\ schedule = TodayIds
    /\ out = NoOut

NextAudit ==
    \/ RecalcMain
    \/ ValidateHistoricalBets

SpecAudit == InitAudit /\ [][NextAudit]_vars

(***************************************************************************)
(* update_results.py: the results of finished games entered in the tracker *)
(***************************************************************************)
\* fetch_scores_for_date: what ESPN may report for the tracker's date ([] on an error)
ScoreFeeds ==
    LET game(away, home, status, a, h) ==
            [away_name |-> away, home_name |-> home, away_score |-> a, home_score |-> h,
             status |-> status]
    IN  { << >>,
          <<game("Celtics", "Nets", 1, Num(0), Num(0))>>,
          <<game("Celtics", "Nets", 3, None, None)>>,
          <<game("Celtics", "Nets", 3, Num(110), Num(100))>>,
          <<game("Celtics", "Nets", 3, Num(100), Num(103))>>,
          <<game("Clippers", "Celtics", 3, Num(99), Num(120)),
            game("Celtics", "Nets", 2, Num(50), Num(48))>> }

\* odds_cache.json as update_tracker may find it, the entries as update_cache writes them
ClosingFiles == {
    [status |-> "missing", games |-> << >>],
    [status |-> "ok",
     games |-> <<[key |-> "Celtics @ Nets", away |-> "Celtics", home |-> "Nets",
                  away_full |-> "Boston Celtics", home_full |-> "Brooklyn Nets",
                  consensus_line |-> Num(-3250)]>>] }

\* resolve_nickname(name); the names of the model carry no surrounding blanks
resolve_nickname(name) ==
    LET NICKNAME_ALIASES == [Blazers |-> "Trail Blazers", Sixers |-> "76ers",
                             Wolves |-> "Timberwolves"]
        hits == {i \in 1..Len(NBA_TEAMS) :
                    \/ LowerText(name) = LowerText(NBA_TEAMS[i].full_name)
                    \/ LowerText(name) = LowerText(NBA_TEAMS[i].abbreviation)}
    IN  IF \E t \in Range(NBA_TEAMS) : t.nickname = name THEN name
        ELSE IF name \in DOMAIN NICKNAME_ALIASES THEN NICKNAME_ALIASES[name]
        ELSE IF hits # {} THEN NBA_TEAMS[SetMin(hits)].nickname
        ELSE name

\* match_game taking the first reported game, whichever teams played it
match_game_any(row, scores) ==
    IF scores = << >> THEN [is_none |-> TRUE] ELSE [is_none |-> FALSE, s |-> scores[1]]

\* match_game(row, scores): the first reported game with the row's two teams
match_game(row, scores) ==
    LET away_csv == resolve_nickname(row.Away.s)
        home_csv == resolve_nickname(row.Home.s)
        hits == {i \in 1..Len(scores) :
                    /\ LowerText(away_csv) = LowerText(scores[i].away_name)
                    /\ LowerText(home_csv) = LowerText(scores[i].home_name)}
    IN  IF hits = {} THEN [is_none |-> TRUE] ELSE [is_none |-> FALSE, s |-> scores[SetMin(hits)]]

\* determine_result(row, score): (result, note).  An empty Market cell is read as NaN,
\* which float() accepts and every comparison answers with False.
determine_result(row, score) ==
    LET pick_resolved == resolve_nickname(row.Pick.s)
        away_resolved == resolve_nickname(row.Away.s)
        home_resolved == resolve_nickname(row.Home.s)
        market == to_float(row.Market)
        final_score == "Final Score: " \o row.Away.s \o " " \o ToString(score.away_score.v)
                       \o " - " \o row.Home.s \o " " \o ToString(score.home_score.v)
        graded(actual_margin, line) ==
            IF row.Market = Empty THEN <<"LOSS", final_score>>
            ELSE IF market.is_none THEN <<"PENDING", "Could not parse Market spread">>
            ELSE IF 1000 * actual_margin = line THEN <<"PUSH", final_score>>
            ELSE IF 1000 * actual_margin > line THEN <<"WIN", final_score>>
            ELSE <<"LOSS", final_score>>
    IN  IF score.away_score.is_none \/ score.home_score.is_none THEN <<"PENDING", "">>
        ELSE IF LowerText(pick_resolved) = LowerText(home_resolved)
        THEN graded(score.home_score.v - score.away_score.v, 0 - market.v)
        ELSE IF LowerText(pick_resolved) = LowerText(away_resolved)
        THEN graded(score.away_score.v - score.home_score.v, market.v)
        ELSE <<"PENDING", final_score \o " (could not match pick '" \o row.Pick.s
                          \o "' to either team)">>

\* calc_payout(result, bet_str, odds_str): None, or the net result of the stake (milli)
calc_payout(result, bet_str, odds_str) ==
    LET bet  == to_float(bet_str)
        odds == to_float(odds_str)
    IN  IF bet.is_none \/ odds.is_none \/ odds.v % 1000 # 0 THEN None
        ELSE IF bet.v <= 0 THEN None
        ELSE IF odds.v = 0 THEN None
        ELSE IF result = "WIN"
        THEN IF odds.v > 0 THEN Num(10 * RoundHalfEven(bet.v * (odds.v \div 1000), 1000))
             ELSE Num(10 * RoundHalfEven(bet.v * 10, Abs(odds.v) \div 1000))
        ELSE IF result = "LOSS" THEN Num(0 - bet.v)
        ELSE IF result = "PUSH" THEN Num(0)
        ELSE None

\* get_closing_line(away_nickname, home_nickname) over the cache file read
get_closing_line(cache, away_nickname, home_nickname) ==
    LET games == IF cache.status = "ok" THEN cache.games ELSE << >>
        key   == away_nickname \o " @ " \o home_nickname
        exact == {i \in 1..Len(games) : games[i].key = key}
        loose == {i \in 1..Len(games) :
                    \/ /\ LowerText(games[i].away) = LowerText(away_nickname)
                       /\ LowerText(games[i].home) = LowerText(home_nickname)
                    \/ /\ LowerText(games[i].away_full) = LowerText(away_nickname)
                       /\ LowerText(games[i].home_full) = LowerText(home_nickname)}
    IN  IF exact # {} THEN games[SetMin(exact)].consensus_line
        ELSE IF loose # {} THEN games[SetMin(loose)].consensus_line
        ELSE None

\* update_tracker(filepath): the rows of the file after the call.  The file is written
\* only at the end: with no pending row, with no score reported, or when a blank team
\* or pick cell (read as NaN) makes .strip() raise, it is left as it was.
update_tracker(scores, cache) ==
    LET pending(row) == UpperText(row.Result.s) = "PENDING"
        final(row)   == LET m == match_game(row, scores)
                        IN  ~m.is_none /\ m.s.status = 3
        raises == \E i \in 1..Len(tracker) :
                      /\ pending(tracker[i])
                      /\ \/ tracker[i].Away = Empty
                         \/ tracker[i].Home = Empty
                         \/ final(tracker[i]) /\ tracker[i].Pick = Empty
        with_clv(row) ==
            LET closing == get_closing_line(cache, row.Away.s, row.Home.s)
                market  == to_float(row.Market)
                raw_clv == round2(closing.v - market.v)
                clv     == IF row.Pick.s = row.Home.s THEN 0 - raw_clv ELSE raw_clv
            IN  IF row.ClosingLine # Empty \/ closing.is_none THEN row
                ELSE IF row.Market = Empty
                THEN [row EXCEPT !.ClosingLine = NumCell(closing.v), !.CLV = TextCell("nan")]
                ELSE IF market.is_none THEN [row EXCEPT !.ClosingLine = NumCell(closing.v)]
                ELSE [row EXCEPT !.ClosingLine = NumCell(closing.v), !.CLV = NumCell(clv)]
        with_result(row) ==
            LET res    == determine_result(row, match_game(row, scores).s)
                payout == calc_payout(res[1], row.Bet, row.Odds)
                marked == [row EXCEPT !.Result = TextCell(res[1]), !.Notes = TextCell(res[2])]
            IN  IF payout.is_none THEN marked
                ELSE [marked EXCEPT !.Payout = NumCell(payout.v)]
        updated(row) ==
            IF ~pending(row) THEN row
            ELSE IF final(row) THEN with_clv(with_result(row))
            ELSE with_clv(row)
    IN  IF \A i \in 1..Len(tracker) : ~pending(tracker[i]) THEN tracker
        ELSE IF scores = << >> THEN tracker
        ELSE IF raises THEN tracker
        ELSE [i \in 1..Len(tracker) |-> updated(tracker[i])]

\* update_results.py run on today's tracker file
UpdateTracker ==
    \E scores \in ScoreFeeds, odds_cache \in ClosingFiles :
        /\ tracker' = update_tracker(scores, odds_cache)
        /\ out' = [op |-> "update", scores |-> scores]
        /\ UNCHANGED <<snapshot, bankroll, tracker_bak, today, schedule>>

\* the tracker at the start: no file yet, or rows logged in an earlier session (their
\* time stamp, which the model keeps to the day, is an earlier one)
LedgerStart == {
    << >>,
    <<[HistRow("G9", NumCell(2700), NumCell(-3000), NumCell(5700), NumCell(5700), "NO",
               "Brooklyn Nets", "PENDING", "", "")
          EXCEPT !.Odds = NumCell(-110000), !.Bet = NumCell(50000)]>>,
    <<HistRow("G1", NumCell(2700), NumCell(-2500), NumCell(5200), NumCell(5200), "NO",
              "Boston Celtics", "PENDING", "", ""),
      [HistRow("G8", NumCell(2700), NumCell(-2500), NumCell(5200), NumCell(5200), "NO",
               "Boston Celtics", "LOSS", "", "")
          EXCEPT !.Odds = NumCell(-110000), !.Bet = NumCell(50000),
                 !.Payout = NumCell(-50000),
                 !.Notes = TextCell("Final Score: Boston Celtics 90 - Brooklyn Nets 99")]>> }

InitLedger ==
    /\ stats_cache = StatsA
    /\ injuries_csv = [status |-> "ok", rows |-> << >>]
    /\ rest_csv = [status |-> "missing", rows |-> << >>]
    /\ star_cache = StarFull
    /\ news_cache = [status |-> "missing", data |-> << >>]
    /\ today = 1
    /\ bankroll = [status |-> "ok", edge_cap |-> Num(5000)]
    /\ tracker \in LedgerStart
    /\ tracker_bak = NoFile
    /\ schedule = TodayIds
    /\ out = NoOut

NextLedger ==
    \/ AnalyzeGame
    \/ UpdateTracker

SpecLedger == InitLedger /\ [][NextLedger]_vars

(***************************************************************************)
(* Properties of the compositor and the reporter                           *)
(***************************************************************************)
Letters == {SubSeq(UpperCase, i, i) : i \in 1..Len(UpperCase)}
           \cup {SubSeq(LowerCase, i, i) : i \in 1..Len(LowerCase)}

\* word occurs in s as a run of whole words: not preceded and not followed by a letter
WordOccurs(word, s) ==
    \E i \in 1..(Len(s) - Len(word) + 1) :
        /\ SubSeq(s, i, i + Len(word) - 1) = word
        /\ i = 1 \/ SubSeq(s, i - 1, i - 1) \notin Letters
        /\ i + Len(word) > Len(s) \/ SubSeq(s, i + Len(word), i + Len(word)) \notin Letters

\* the news item names the team: its full name or its nickname (the last word of the
\* full name) is among the item's words, whatever the case
MentionsTable ==
    [i \in 1..Len(NewsPool), team \in UNION TeamLists |->
        LET text == lower(NewsPool[i].title) \o " " \o lower(NewsPool[i].summary)
        IN  WordOccurs(lower(team), text) \/ WordOccurs(lower(LastWord(team)), text)]

Mentions(item, team) ==
    MentionsTable[CHOOSE i \in 1..Len(NewsPool) : NewsPool[i] = item, team]

RECURSIVE PenaltyOfItemsNaming(_, _, _, _)
\* the late-scratch and coach-fired penalties of the items that name one of two teams
PenaltyOfItemsNaming(news, t1, t2, i) ==
    IF i > Len(news) THEN 0
    ELSE (IF Mentions(news[i], t1) \/ Mentions(news[i], t2)
          THEN (IF Contains("late scratch", combined(news[i])) THEN -2000 ELSE 0)
               + (IF Contains("coach fired", combined(news[i])) THEN -1000 ELSE 0)
          ELSE 0)
         + PenaltyOfItemsNaming(news, t1, t2, i + 1)

Predicted == out.op = "predict" /\ out.res.ok

\* C5: no cross-matchup news leakage.  The news factor of a matchup is made of the
\* items that name one of its two teams; an item that names neither (one that only
\* names another team, say) adds nothing to it.
C5_NoNewsLeakage ==
    Predicted =>
        out.res.news_factor = PenaltyOfItemsNaming(get_news, out.res.h_team, out.res.a_team, 1)

\* the star-tax cache has no player-impact data for the team: the file is absent or
\* unreadable, or the team's entry is missing, empty, or carries the error marker
StarTaxUnavailable(team) ==
    \/ star_cache.status # "ok"
    \/ \A e \in star_cache.teams : e.id = TEAM_NAME_TO_ID(team) => (e.players = {} \/ e.error)

\* C6: get_star_tax_weighted returns None, never a number, whenever the cache has no
\* data for the team, whatever injury list it is given; it returns a number only when
\* the data was available.
C6_SentinelWhenUnavailable ==
    Predicted =>
        /\ StarTaxUnavailable(out.res.h_team) <=> out.res.h_tax_raw.is_none
        /\ StarTaxUnavailable(out.res.a_team) <=> out.res.a_tax_raw.is_none

\* C7: star_tax_failed is true exactly when a side's lookup returned the sentinel; the
\* side with the sentinel adds nothing to the fair line and the other side's star tax
\* is applied as -home_tax, +away_tax.
C7_SentinelPropagation ==
    Predicted =>
        LET r == out.res
            part(t) == IF t.is_none THEN 0 ELSE t.v
        IN  /\ r.star_tax_failed <=> (r.h_tax_raw.is_none \/ r.a_tax_raw.is_none)
            /\ r.fair_num = r.matchup_num
                            + 2000 * (HCA_FLAT + r.rest_adj + r.news_factor)
                            - 2000 * part(r.h_tax_raw) + 2000 * part(r.a_tax_raw)
            /\ r.fair_line = 10 * RoundHalfEven(r.fair_num, 20000)

\* one side's lookup returned the sentinel and the other side's a star tax that is not 0
C7_Witness ==
    /\ Predicted
    /\ out.res.star_tax_failed
    /\ out.res.h_tax_raw.is_none
    /\ ~out.res.a_tax_raw.is_none /\ out.res.a_tax_raw.v # 0

\* C9: two invocations of predict_nba_spread with the same names on identical
\* snapshots return the same result in every component, whenever they happen.
C9_Deterministic ==
    [][(/\ out.op = "predict" /\ out'.op = "predict"
        /\ out'.away_in = out.away_in /\ out'.home_in = out.home_in
        /\ snapshot' = snapshot)
       => out'.res = out.res]_vars

\* for the names of the last decomposition, predict_nba_spread returns a result only if
\* decompose_edge did, for the same two teams, fair line and star_tax_failed
AgreesWithPredict ==
    LET p == predict_nba_spread(out.away_in, out.home_in)
    IN  p.ok => /\ out.res.ok
                /\ out.res.home = p.h_team /\ out.res.away = p.a_team
                /\ out.res.fair_line = p.fair_line
                /\ out.res.star_tax_failed = p.star_tax_failed

\* C10: decompose_edge reproduces the canonical computation and writes no stored state.
C10_DecomposeReproduces ==
    [][(out' # out /\ out'.op = "decompose") => (AgreesWithPredict' /\ stored' = stored)]_vars

\* the names of the rating table the computations read
TableNames == {calculate_pace_and_ratings[i].TEAM_NAME : i \in 1..Len(calculate_pace_and_ratings)}

\* the two names a finished call resolved its arguments to, <<home, away>>
ResolvedNames ==
    IF out.op = "predict" THEN <<out.res.h_team, out.res.a_team>>
    ELSE <<out.res.home, out.res.away>>

\* C11: predict_nba_spread and decompose_edge fail whenever a resolved name has no
\* row in the rating table; the error then names the two requested names and the
\* resolved name that has no row, and no result (no fair line) is returned.
C11_TeamNotFound ==
    out.op \in {"predict", "decompose"} =>
        LET unresolved == {n \in Range(ResolvedNames) : n \notin TableNames}
        IN  /\ unresolved # {} => ~out.res.ok
            /\ (unresolved # {} /\ ~out.res.ok) =>
                  /\ Occurs(out.away_in, out.res.error) /\ Occurs(out.home_in, out.res.error)
                  /\ \A n \in unresolved : Occurs(n, out.res.error)
                  /\ "fair_line" \in DOMAIN out.res => out.res.fair_line = 0

\* both computations were asked for a team that is in no table and failed
C11_Witness ==
    /\ out.op \in {"predict", "decompose"}
    /\ out.away_in = "Seattle Supersonics"
    /\ ~out.res.ok
    /\ "Seattle Supersonics" \in Range(ResolvedNames)

\* the rest penalty the file holds for the team when it is a number, 0 otherwise
RestOfWellFormed(team_name) ==
    LET rows == {i \in 1..Len(rest_csv.rows) : rest_csv.rows[i].TEAM_NAME = team_name}
        cell == rest_csv.rows[CHOOSE i \in rows : \A j \in rows : i <= j].REST_PENALTY
    IN  IF rest_csv.status # "ok" \/ rows = {} THEN 0
        ELSE IF cell.kind = "num" THEN cell.n ELSE 0

\* C12: whatever the injury and rest-penalty caches hold (an empty or non-text status
\* or date, a status outside the vocabulary, a rest penalty that is no number, for any
\* team), predict_nba_spread with two resolvable teams returns a fair line, and a
\* malformed rest penalty counts as 0 in it.
C12_MalformedRowsHarmless ==
    (out.op = "predict" /\ Range(ResolvedNames) \subseteq TableNames) =>
        /\ out.res.ok
        /\ out.res.rest_adj = RestOfWellFormed(out.res.h_team) - RestOfWellFormed(out.res.a_team)

(***************************************************************************)
(* Properties of the staking session                                       *)
(***************************************************************************)
\* an analysis was displayed: the game analysis or the upcoming-game preview
Analyzed == out.op \in {"analyze", "preview"} /\ out.ok

\* the rule of the specification: home on fair < market, away otherwise
PickRule(home, away, fair_line, market_line) ==
    IF fair_line < market_line THEN home ELSE away

\* C1: the game analysis, the upcoming preview, the tracker recalculation and the
\* validator's expected pick all recommend the home team if fair_line < market_line
\* and the away team otherwise, the tie included.
C1_SamePickRule ==
    /\ Analyzed =>
          out.a.recommendation = PickRule(out.a.home, out.a.away, out.a.fair_line, out.a.market)
    /\ out.op = "recalc" =>
          \A i \in 1..Len(out.rows) :
              out.rows[i].updated =>
                  /\ out.rows[i].recommendation
                       = PickRule(out.rows[i].home, out.rows[i].away,
                                  out.rows[i].fair_line, out.rows[i].market)
                  /\ tracker[i].Pick = TextCell(out.rows[i].recommendation)
    /\ out.op = "validate" =>
          \A i \in 1..Len(out.rows) :
              out.rows[i].rec_made =>
                  out.rows[i].expected_rec
                    = PickRule(out.rows[i].home, out.rows[i].away,
                               out.rows[i].fair.v, out.rows[i].market.v)

\* the validator derived its expected pick for a record whose fair line equals its
\* market line, and expected the away team
C1_Witness ==
    /\ out.op = "validate"
    /\ \E i \in 1..Len(out.rows) :
          /\ out.rows[i].rec_made
          /\ out.rows[i].fair.v = out.rows[i].market.v
          /\ out.rows[i].expected_rec = out.rows[i].away

\* C2: when the raw edge exceeds the edge cap, the Kelly percentage recommended and
\* logged at bet time is the Kelly percentage of an edge of exactly edge_cap.
C2_CapBoundsKelly ==
    (out.op = "analyze" /\ out.ok /\ out.logged /\ out.a.edge_capped) =>
        /\ out.a.kelly = calculate_kelly(0, out.a.EDGE_CAP)
        /\ tracker[Len(tracker)].Kelly = PctCell(calculate_kelly(0, out.a.EDGE_CAP))

\* C3: in the game analysis, the upcoming preview and the pre-tipoff review, raw_edge
\* is |fair_line - market_line| rounded to 2 decimals and the capped edge is the
\* smaller of raw_edge and edge_cap, hence at most raw_edge and at most edge_cap.
C3_EdgeAndCap ==
    LET rounded2(r, x) == r % 10 = 0 /\ Abs(r - x) <= 5
        smaller(e, r, cap) == e \in {r, cap} /\ e <= r /\ e <= cap
    IN  /\ Analyzed =>
              /\ rounded2(out.a.raw_edge, Abs(out.a.fair_line - out.a.market))
              /\ smaller(out.a.edge, out.a.raw_edge, out.a.EDGE_CAP)
        /\ (out.op = "pretipoff" /\ out.ok) =>
              \A i \in 1..Len(out.reviews) :
                  out.reviews[i].recalculated =>
                      /\ rounded2(out.reviews[i].raw_new_edge,
                                  Abs(out.reviews[i].new_fair - out.reviews[i].market_for_edge))
                      /\ smaller(out.reviews[i].new_edge, out.reviews[i].raw_new_edge,
                                 out.reviews[i].EDGE_CAP)

\* the pre-tipoff review recalculated a bet whose raw edge is above the cap
C3_Witness ==
    /\ out.op = "pretipoff" /\ out.ok
    /\ \E i \in 1..Len(out.reviews) :
          /\ out.reviews[i].recalculated
          /\ out.reviews[i].raw_new_edge > out.reviews[i].EDGE_CAP
          /\ out.reviews[i].new_edge = out.reviews[i].EDGE_CAP

\* the Kelly percentage as the specification states it, in hundredths of a percent:
\* p = clamp(0.524 + 0.015 * edge, 0.48, 0.70), full Kelly (0.91 p - (1 - p)) / 0.91,
\* a quarter of it, floored at 0, times 100
StatedKelly(fair_line, market) ==
    LET raw == 524000 + 15 * Abs(fair_line - market)
        p   == IF raw < 480000 THEN 480000 ELSE IF raw > 700000 THEN 700000 ELSE raw
        num == 91 * p - 100 * (1000000 - p)
    IN  IF num <= 0 THEN 0 ELSE RoundHalfEven(num, 36400)

\* C4: calculate_kelly returns the stated quarter-Kelly percentage, which is at least
\* 0 and at most 25, for every fair line and market line.
C4_KellyBounds ==
    /\ Analyzed =>
          /\ out.a.kelly >= 0 /\ out.a.kelly <= 2500
          /\ out.a.kelly = StatedKelly(out.a.fair_line, out.a.market)
    /\ out.op = "recalc" =>
          \A i \in 1..Len(out.rows) :
              out.rows[i].updated =>
                  /\ out.rows[i].kelly >= 0 /\ out.rows[i].kelly <= 2500
                  /\ out.rows[i].kelly = StatedKelly(out.rows[i].fair_line, out.rows[i].market)
    /\ \A i \in 1..Len(tracker) :
          tracker[i].Kelly.kind = "pct" /\ tracker[i].Kelly.n >= 0 /\ tracker[i].Kelly.n <= 2500

\* an analysis whose edge puts the win probability at the upper clamp
C4_Witness ==
    /\ Analyzed
    /\ 524000 + 15 * Abs(out.a.fair_line - out.a.market) > 700000
    /\ out.a.kelly = 926

\* HIGH > MEDIUM > LOW
GradeRank(conf) ==
    IF conf = CONF_HIGH THEN 3
    ELSE IF conf \in {CONF_MEDIUM, CONF_STAR_TAX, CONF_STAR_TAX_RECALC} THEN 2
    ELSE 1

\* the grade of a questionable-player list when star-tax data is available
RankWithData(q_players) ==
    IF Len(q_players) >= 2 THEN 1 ELSE IF Len(q_players) = 1 THEN 2 ELSE 3

\* C8: when star-tax data is unavailable for a side, the confidence grade is never
\* HIGH and never better than the grade the same questionable-player list receives
\* with star-tax data available.
C8_ConfidenceDegraded ==
    LET degraded(conf, q_players) ==
            GradeRank(conf) < 3 /\ GradeRank(conf) <= RankWithData(q_players)
    IN  /\ (Analyzed /\ out.a.star_tax_failed) => degraded(out.a.conf, out.a.q_players)
        /\ out.op = "recalc" =>
              \A i \in 1..Len(out.rows) :
                  (out.rows[i].updated /\ out.rows[i].star_tax_failed) =>
                      degraded(out.rows[i].conf, out.rows[i].q_players)
\* the issues of an audited row that are about the check
IssuesAbout(row_issues, check) ==
    {i \in 1..Len(row_issues) : row_issues[i].check = check}

\* C13: for every record whose Fair, Market and Edge are numeric, the validator reports
\* an ERROR on the edge exactly when the recorded Edge is more than 0.05 away from
\* min(round(|Fair - Market|, 2), edge_cap), and the ERROR quotes the recorded and the
\* expected value.
C13_EdgeError ==
    out.op = "validate" =>
        \A i \in 1..Len(out.rows) :
            LET fair   == to_float(tracker[i].Fair)
                market == to_float(tracker[i].Market)
                edge   == to_float(tracker[i].Edge)
                expected == Min(round2(Abs(fair.v - market.v)), load_edge_cap)
                errors == IssuesAbout(out.rows[i].row_issues, "Edge")
            IN  (~fair.is_none /\ ~market.is_none /\ ~edge.is_none) =>
                    /\ (errors # {}) <=> (Abs(edge.v - expected) > 50)
                    /\ \A e \in errors :
                          /\ out.rows[i].row_issues[e].sev = "ERROR"
                          /\ out.rows[i].row_issues[e].got = NumCell(edge.v)
                          /\ out.rows[i].row_issues[e].want = NumCell(expected)
\* C14: in the validator's report, every row whose Pick is not empty and is neither
\* its Away nor its Home team carries the ERROR "Pick not in matchup", whatever its
\* Fair, Market, Edge and Kelly cells hold.
C14_PickErrorIndependent ==
    out.op = "validate" =>
        \A i \in 1..Len(tracker) :
            (tracker[i].Pick.s # ""
             /\ tracker[i].Pick.s \notin {tracker[i].Away.s, tracker[i].Home.s})
            => \E k \in IssuesAbout(out.rows[i].row_issues, "Pick not in matchup") :
                   out.rows[i].row_issues[k].sev = "ERROR"

\* the severities an issue may carry
Severities == {"ERROR", "WARN", "INFO"}

\* the tally the rule gives a row: error with any ERROR, else warning with any WARN,
\* else clean
StatedTally(row_issues) ==
    IF \E k \in 1..Len(row_issues) : row_issues[k].sev = "ERROR" THEN "error"
    ELSE IF \E k \in 1..Len(row_issues) : row_issues[k].sev = "WARN" THEN "warning"
    ELSE "clean"

\* C15: the validator reports on every data row of the tracker once and in order,
\* whatever the row holds; every issue has a severity among ERROR, WARN and INFO;
\* each row is counted under the tally the rule gives it, and the clean, warning and
\* error counts sum to the number of data rows.
C15_ValidationTotal ==
    out.op = "validate" =>
        /\ Len(out.rows) = Len(tracker)
        /\ out.n_bets = Len(tracker)
        /\ \A i \in 1..Len(tracker) :
               /\ out.rows[i].gid = tracker[i].ID.s
               /\ \A k \in 1..Len(out.rows[i].row_issues) :
                      out.rows[i].row_issues[k].sev \in Severities
        /\ out.n_errors = Cardinality({i \in 1..Len(tracker) :
                              StatedTally(out.rows[i].row_issues) = "error"})
        /\ out.n_warnings = Cardinality({i \in 1..Len(tracker) :
                              StatedTally(out.rows[i].row_issues) = "warning"})
        /\ out.n_clean = Cardinality({i \in 1..Len(tracker) :
                              StatedTally(out.rows[i].row_issues) = "clean"})
        /\ out.n_clean + out.n_warnings + out.n_errors = Len(tracker)

\* an audit of a blank row next to a row that has both an ERROR and a WARN
C15_Witness ==
    /\ out.op = "validate"
    /\ \E i \in 1..Len(tracker) : tracker[i] = BlankRow
    /\ \E i \in 1..Len(tracker) :
           /\ \E k \in 1..Len(out.rows[i].row_issues) :
                  out.rows[i].row_issues[k].sev = "ERROR"
           /\ \E k \in 1..Len(out.rows[i].row_issues) :
                  out.rows[i].row_issues[k].sev = "WARN"
    /\ out.n_errors = 1
    /\ out.n_warnings = 1

\* the row of the rating table under a team name
RatingsOf(team) ==
    LET ratings == calculate_pace_and_ratings
    IN  ratings[CHOOSE i \in 1..Len(ratings) : ratings[i].TEAM_NAME = team]

\* the last call ran on the inputs of the worked example: home 118 / 112 / 100, away
\* 114 / 116 / 98, baseline 115.5, regression 0.75, home-court advantage 3.0
ExampleRatings ==
    /\ out.op \in {"predict", "decompose"} /\ out.res.ok
    /\ LET h == RatingsOf(ResolvedNames[1])
           a == RatingsOf(ResolvedNames[2])
       IN  /\ h.OFF_RATING = 1180 /\ h.DEF_RATING = 1120 /\ h.PACE = 1000
           /\ a.OFF_RATING = 1140 /\ a.DEF_RATING = 1160 /\ a.PACE = 980
    /\ LEAGUE_BASELINE.OFF_RATING = 1155 /\ LEAGUE_BASELINE.DEF_RATING = 1155
    /\ REGRESS_FACTOR = 75

\* ... as predict_nba_spread, with zero rest, injury and news adjustments
ExamplePredicted ==
    /\ ExampleRatings /\ out.op = "predict"
    /\ out.res.rest_adj = 0 /\ out.res.news_factor = 0
    /\ tax_or_zero(out.res.h_tax_raw) = 0 /\ tax_or_zero(out.res.a_tax_raw) = 0

\* ... as decompose_edge, with zero rest, injury and news adjustments
ExampleDecomposed ==
    /\ ExampleRatings /\ out.op = "decompose"
    /\ out.res.rest_adj = 0 /\ out.res.news_factor = 0
    /\ out.res.h_tax = 0 /\ out.res.a_tax = 0

\* C16 as stated: on the inputs of the worked example the post-regression differential
\* is 0.25, the matchup component is 0.2475 (0.25 as the reporter rounds it) and the
\* fair line is 3.25.
C16_WorkedExampleAsStated ==
    /\ ExamplePredicted => (out.res.matchup_num = 2000 * 247 + 1000 /\ out.res.fair_line = 3250)
    /\ ExampleDecomposed => /\ out.res.raw_diff_post = 250
                            /\ out.res.matchup_component = 250
                            /\ out.res.fair_line = 3250

\* C16: on the inputs of the worked example (the regressed ratings are 117.375 and
\* 112.875 for the home team, 114.375 and 115.875 for the away team) the
\* post-regression differential is 0, the matchup component is 0 and the fair line
\* is the home-court advantage, 3.0.
C16_WorkedExample ==
    /\ ExamplePredicted => (out.res.matchup_num = 0 /\ out.res.fair_line = 3000)
    /\ ExampleDecomposed => /\ out.res.raw_diff_post = 0
                            /\ out.res.matchup_component = 0
                            /\ out.res.fair_line = 3000

\* predict_nba_spread returned the fair line of the worked example
C16_Witness == ExamplePredicted /\ out.res.fair_line = 3000 /\ out.home_in = "Celtics"

\* the columns the recalculation is to rewrite
RecalcColumns == {"Fair", "Edge", "Kelly"}

\* C17: a recalculation keeps the number and the order of the tracker's rows and, in
\* every row, every column other than Fair, Edge and Kelly as it was.
C17_RecalcFrame ==
    [][out'.op = "recalc" =>
          /\ Len(tracker') = Len(tracker)
          /\ \A i \in 1..Len(tracker) :
                 \A c \in Range(header) \ RecalcColumns : tracker'[i][c] = tracker[i][c]]_vars

\* C18: when a recalculation has rewritten the tracker, the tracker's .bak file exists
\* and holds the rows the tracker had before.
C18_BackupBeforeOverwrite ==
    [][(out'.op = "recalc" /\ out'.found) =>
          (tracker_bak'.status = "ok" /\ tracker_bak'.rows = tracker)]_vars

\* C19: with the market line and every other input of an analysis fixed, taking one
\* adjustment in the home team's favour into account (the home-court advantage, the
\* away team's rest penalty, the away team's star tax) never turns a recommendation of
\* the home team into one of the away team, and taking one adjustment against the home
\* team into account (its rest penalty, its star tax) never turns a recommendation of
\* the away team into one of the home team.
C19_SignConvention ==
    Analyzed =>
        LET p == predict_nba_spread(out.a.away, out.a.home)
            h_rest == get_rest_penalty(TEAM_NAME_TO_ID(p.h_team))
            a_rest == get_rest_penalty(TEAM_NAME_TO_ID(p.a_team))
            \* what each adjustment adds to the fair line (milli)
            favouring == {HCA_FLAT, 0 - a_rest, tax_or_zero(p.a_tax_raw)}
            \* what each adjustment takes from the fair line (milli)
            against   == {0 - h_rest, tax_or_zero(p.h_tax_raw)}
            \* the recommendation at 2000 times an unrounded fair line
            rec_at(fair_num) ==
                PickRule(out.a.home, out.a.away, 10 * RoundHalfEven(fair_num, 20000),
                         out.a.market)
        IN  /\ \A d \in favouring :
                   (d > 0 /\ rec_at(p.fair_num - 2000 * d) = out.a.home)
                   => out.a.recommendation = out.a.home
            /\ \A d \in against :
                   (d > 0 /\ rec_at(p.fair_num + 2000 * d) = out.a.away)
                   => out.a.recommendation = out.a.away

\* the severity weight of a status (tenths): the weight of the keyword the status
\* contains, letter case ignored, and 0 for a status with no keyword
StatedWeight(status) ==
    LET s == lower(status)
    IN  IF Contains("out", s) THEN 10
        ELSE IF Contains("doubtful", s) THEN 9
        ELSE IF Contains("questionable", s) \/ Contains("game time decision", s)
                \/ Contains("day-to-day", s) THEN 5
        ELSE IF Contains("probable", s) THEN 1
        ELSE 0

\* the player table the star-tax cache holds for the team, {} when it holds none
PlayerTable(team) ==
    IF star_cache.status # "ok" THEN {}
    ELSE UNION {e.players : e \in {x \in star_cache.teams : x.id = TEAM_NAME_TO_ID(team)}}

RECURSIVE StatedSum(_, _, _)
\* S: over the injured players from the i-th on that the table has a row for, on/off
\* value times severity weight (hundredths)
StatedSum(injured, table, i) ==
    IF i > Len(injured) THEN 0
    ELSE LET found == {e \in table : e.name = lower(injured[i].name)}
         IN  (IF found = {} THEN 0
              ELSE (CHOOSE e \in found : TRUE).pm * StatedWeight(injured[i].status))
             + StatedSum(injured, table, i + 1)

Similarity ==
    [name \in InputNames, c \in UNION TeamLists |-> Ratio(c, name)]

\* the fraction is at least 0.7
AtLeastCutoff(r) == r.den > 0 /\ 10 * r.num >= 7 * r.den

\* resolved is what the stated order gives for name: the name itself when canonical,
\* else its alias target when that is canonical, else a canonical name of the greatest
\* similarity when that similarity is at least 0.7, else the name itself
ResolvedAsStated(aliases, name, canon, resolved) ==
    LET targets == {a[2] : a \in {x \in aliases : x[1] = name}} \cap canon
        close   == {c \in canon : AtLeastCutoff(Similarity[name, c])}
    IN  /\ resolved \in canon \cup {name}
        /\ IF name \in canon THEN resolved = name
           ELSE IF targets # {} THEN resolved \in targets
           ELSE IF close # {}
           THEN /\ resolved \in close
                /\ \A c \in close :
                       Similarity[name, resolved].num * Similarity[name, c].den
                       >= Similarity[name, c].num * Similarity[name, resolved].den
           ELSE resolved = name

\* C21: the two names predict_nba_spread and decompose_edge resolve their arguments to
\* are what the stated order gives (exact, alias with a canonical target, closest at
\* similarity 0.7 or more, else the input), hence canonical names or the inputs
\* themselves, and a function of the inputs alone.
C21_ResolutionOrder ==
    /\ out.op = "predict" =>
           /\ ResolvedAsStated(short_to_full, out.home_in, TableNames, out.res.h_team)
           /\ ResolvedAsStated(short_to_full, out.away_in, TableNames, out.res.a_team)
    /\ out.op = "decompose" =>
           /\ ResolvedAsStated(SHORT_TO_FULL, out.home_in, TableNames, out.res.home)
           /\ ResolvedAsStated(SHORT_TO_FULL, out.away_in, TableNames, out.res.away)

\* decompose_edge was given the nickname Clippers, whose alias target LA Clippers is
\* not canonical and which is close to no canonical name: it is left as it is, next
\* to a nickname resolved through its alias
C21_Witness ==
    /\ out.op = "decompose"
    /\ out.away_in = "Clippers" /\ out.res.away = "Clippers"
    /\ out.home_in = "Boston Celtics" /\ out.res.home = "Boston Celtics"

\* C22: between two fair-line computations for the same names with no refresh in
\* between, the rating snapshot used is the same one, whatever has happened to the
\* snapshot on disk: the second matchup term is the first.
C22_RatingsCachedInProcess ==
    [][(/\ out.op = "predict" /\ out'.op = "predict"
        /\ out.res.ok /\ out'.res.ok
        /\ out'.away_in = out.away_in /\ out'.home_in = out.home_in)
       => out'.res.matchup_num = out.res.matchup_num]_vars

\* C23: predict_nba_spread returns a fair line only when the rating snapshot on disk is
\* there and readable.
C23_NoBaselineFallback ==
    (out.op = "predict" /\ out.res.ok) => stats_cache.status = "ok"

\* the pre-regression differential of the last call's two teams, from the rating table
\* (tenths): (home off - away def) - (away off - home def)
PreDiff ==
    LET h == RatingsOf(ResolvedNames[1])
        a == RatingsOf(ResolvedNames[2])
    IN  (h.OFF_RATING - a.DEF_RATING) - (a.OFF_RATING - h.DEF_RATING)

\* twice the expected pace of the last call's two teams (tenths)
PaceSum == RatingsOf(ResolvedNames[1]).PACE + RatingsOf(ResolvedNames[2]).PACE

\* C24: the post-regression differential is 0.75 times the pre-regression one and the
\* regression impact -0.25 times it, so the fair line is the pace-scaled 0.75 of the
\* pre-regression differential plus the adjustments, an expression in which no
\* league-baseline value occurs.
C24_BaselineCancels ==
    /\ Predicted =>
           /\ out.res.matchup_num = 75 * PreDiff * PaceSum
           /\ out.res.fair_line =
                  10 * RoundHalfEven(75 * PreDiff * PaceSum
                                     + 2000 * (3000 + out.res.rest_adj
                                               - tax_or_zero(out.res.h_tax_raw)
                                               + tax_or_zero(out.res.a_tax_raw)
                                               + out.res.news_factor), 20000)
    /\ (out.op = "decompose" /\ out.res.ok) =>
           /\ out.res.raw_diff_post = round2(75 * PreDiff)
           /\ out.res.regression_impact = round2(0 - 25 * PreDiff)
           /\ out.res.fair_line =
                  10 * RoundHalfEven(75 * PreDiff * PaceSum
                                     + 2000 * (3000 + out.res.rest_adj - out.res.h_tax
                                               + out.res.a_tax + out.res.news_factor), 20000)

\* a fair line for two teams whose pre-regression differential is not 0
C24_Witness == Predicted /\ PreDiff # 0 /\ out.res.matchup_num # 0

\* the checks a consistent record must not trip: every ERROR, the Kelly WARNs, the
\* Edge_Capped WARNs and the pick-direction INFO
ConsistencyIssue(issue) ==
    \/ issue.sev = "ERROR"
    \/ issue.check \in {"Kelly", "Kelly unparseable", "Pick differs from model rec",
                         "Edge_Capped=YES but raw edge <= cap",
                         "Edge_Capped=NO but raw edge > cap"}

\* C25: when the validator runs right after a game analysis has logged a bet with the
\* model's own recommendation as Pick (same edge cap), the logged row, the tracker's
\* last, has no ERROR, no Kelly WARN, no Edge_Capped WARN and no pick-direction INFO.
C25_LogThenValidate ==
    [][(/\ out.op = "analyze" /\ out.ok /\ out.logged
        /\ out.pick = out.a.recommendation
        /\ out'.op = "validate")
       => \A k \in 1..Len(out'.rows[Len(tracker)].row_issues) :
              ~ConsistencyIssue(out'.rows[Len(tracker)].row_issues[k])]_vars

\* C26: every row a recalculation has rewritten holds Raw_Edge = round(|Fair - Market|, 2),
\* Edge = min(Raw_Edge, edge_cap) and Edge_Capped = YES exactly when Raw_Edge > edge_cap.
C26_RecalcSelfConsistent ==
    out.op = "recalc" =>
        \A i \in 1..Len(tracker) :
            out.rows[i].updated =>
                LET row == tracker[i]
                    raw == round2(Abs(to_float(row.Fair).v - to_float(row.Market).v))
                IN  /\ row.Raw_Edge = NumCell(raw)
                    /\ row.Edge = NumCell(Min(raw, load_edge_cap))
                    /\ (row.Edge_Capped.s = "YES") <=> (raw > load_edge_cap)

C28_ResultMovesForward ==
    [][out'.op = "update" =>
        /\ Len(tracker') = Len(tracker)
        /\ \A i \in 1..Len(tracker) :
               LET old == tracker[i]
                   new == tracker'[i]
                   nick(name) == IF \E t \in Range(NBA_TEAMS) : t.full_name = name
                                 THEN (CHOOSE t \in Range(NBA_TEAMS) : t.full_name = name).nickname
                                 ELSE name
                   final_found == \E k \in 1..Len(out'.scores) :
                                      /\ out'.scores[k].status = 3
                                      /\ out'.scores[k].away_name = nick(old.Away.s)
                                      /\ out'.scores[k].home_name = nick(old.Home.s)
               IN  /\ old.Result # TextCell("PENDING") => new = old
                   /\ (old.Result = TextCell("PENDING") /\ new.Result.s \in {"WIN", "LOSS", "PUSH"})
                          => final_found
                   /\ new.Result.s \in {"PENDING", "WIN", "LOSS", "PUSH"}]_vars

\* an update has run on a tracker with a row decided before the session, which is as it
\* was, and a row logged in the session, whose Result the update has turned into WIN
C28_Witness ==
    /\ out.op = "update"
    /\ Len(tracker) = 2
    /\ tracker[1].ID = TextCell("G8")
    /\ tracker[1].Result = TextCell("LOSS")
    /\ tracker[1].Payout = NumCell(0 - 50000)
    /\ tracker[1].Notes = TextCell("Final Score: Boston Celtics 90 - Brooklyn Nets 99")
    /\ tracker[1].ClosingLine = Empty
    /\ tracker[2].Timestamp = TextCell(DayLabels[today])
    /\ tracker[2].Result = TextCell("WIN")
    /\ tracker[2].Notes = TextCell("Final Score: Boston Celtics 110 - Brooklyn Nets 100")

\* C29: the late-breaking flag returned with a fair line is raised only by an injury
\* record of one of the two teams playing, by a late-scratch news item that names one of
\* them, or by a star-tax lookup that failed for one of them.
C29_FlagMatchupOnly ==
    Predicted =>
        (out.res.flag =>
            \/ out.res.star_tax_failed
            \/ \E p \in Range(out.res.h_injuries) \cup Range(out.res.a_injuries) :
                   lower(p.status) \in FLAG_STATUSES
            \/ \E i \in 1..Len(get_news) :
                   /\ Contains("late scratch", combined(get_news[i]))
                   /\ \/ Mentions(get_news[i], out.res.h_team)
                      \/ Mentions(get_news[i], out.res.a_team))

\* C30: every player of the two teams playing whose status contains 'questionable',
\* compared without regard to case as the star-tax resolver compares it, is in the
\* returned list of questionable players.
C30_QuestionableUniform ==
    Predicted =>
        \A p \in Range(out.res.h_injuries) \cup Range(out.res.a_injuries) :
            Contains("questionable", lower(p.status)) =>
                \E k \in 1..Len(out.res.q_players) : out.res.q_players[k] = p.name

====
